---- MODULE Spec2Model ----
(***************************************************************************)
(* A model of the Monopoly rules engine: the Player ledger and landing     *)
(* resolution (classes/player_definitions.py), the card executor and the   *)
(* two decks (classes/chance_cards.py), the GUI turn engine                *)
(* (gui/game_controller.py) and the console loop (monopoly_driver.py).     *)
(*                                                                         *)
(* Handlers are operators from a world record to a world record; an action *)
(* applies one handler to the current world and commits the result.        *)
(* Players are list indices 0..n-1; a space's owner is Bank or an index.   *)
(***************************************************************************)
EXTENDS Integers, Sequences, FiniteSets, TLC

VARIABLES
    name,                  \* Player.name, by list index
    balance,               \* Player.balance
    cards_owned,           \* Player.cards_owned: sequence of space indices
    current_pos,           \* Player.current_pos
    in_jail,               \* Player.in_jail
    railroads_owned,       \* Player.railroads_owned
    doubles_counter,       \* Player.doubles_counter
    bankruptcy_status,     \* Player.bankruptcy_status
    get_out_of_jail_cards, \* Player.get_out_of_jail_cards: sequence of card ids
    owner,                 \* Card.owner of each board space
    mortgaged_spaces,      \* the board spaces whose Card.mortgaged is set
    callbacks,             \* GameController.on_*: whether the GUI callbacks are set
    chance_cards,          \* ChanceDeck.cards (draw pile)
    chance_discard,        \* ChanceDeck.discard_pile
    cc_cards,              \* CommunityChestDeck.cards (draw pile)
    cc_discard,            \* CommunityChestDeck.discard_pile
    current_player_index,  \* GameController.current_player_index / driver i
    game_started,          \* GameController.game_started
    game_over,             \* GameController.game_over / driver loop left
    turn_phase,            \* GameController.turn_phase
    last_dice_roll,        \* GameController.last_dice_roll (0 models None)
    winner,                \* the winner _end_game / display_winner announces
    last,                  \* record of the operation that produced this state
    ops                    \* number of operations performed so far

vars == <<name, balance, cards_owned, current_pos, in_jail, railroads_owned,
          doubles_counter, bankruptcy_status, get_out_of_jail_cards, owner,
          mortgaged_spaces, callbacks, chance_cards, chance_discard, cc_cards, cc_discard,
          current_player_index, game_started, game_over, turn_phase,
          last_dice_roll, winner, last, ops>>

----------------------------------------------------------------------------
(* Bounds of the model *)


----------------------------------------------------------------------------
(* Program constants *)

BoardSize == 40
JailPos == 10
PassGoBonus == 200
StartBalance == 1500
BailAmount == 50
LuxuryTaxAmount == 75
IncomeTaxAmount == 200
RailroadRentUnit == 25
RailroadDoubleRentUnit == 50
UtilityCardMultiplier == 10

\* the owner of a space no player owns (the string 'Bank' of the sources)
Bank == -1
\* the acting player recorded for an operation that has none
NoPlayer == Bank - 1

Spaces == 0..(BoardSize - 1)
railroad_positions == <<5, 15, 25, 35>>
utility_positions == <<12, 28>>

SeqToSet(s) == {s[i] : i \in 1..Len(s)}

RailroadSpaces == SeqToSet(railroad_positions)
UtilitySpaces == SeqToSet(utility_positions)
ChanceSpaces == {7, 22, 36}
CommunityChestSpaces == {2, 17, 33}

\* card_name of the spaces whose card_cost is "N/A" (game/information.py)
card_name(s) ==
    CASE s = 0 -> "Go"
      [] s = 4 -> "Income Tax"
      [] s = 10 -> "Jail/Visiting Jail"
      [] s = 20 -> "Free Parking"
      [] s = 30 -> "Go to Jail"
      [] s = 38 -> "Luxury Tax"
      [] s \in ChanceSpaces -> "Chance"
      [] s \in CommunityChestSpaces -> "Community Chest"
      [] OTHER -> "Property"

\* card_cost by index; 0 stands for "N/A"
CostTable ==
    <<0, 60, 0, 60, 0, 200, 100, 0, 100, 120,
      0, 140, 150, 140, 160, 200, 180, 0, 180, 200,
      0, 220, 0, 220, 240, 200, 260, 260, 150, 280,
      0, 300, 300, 0, 320, 200, 0, 350, 0, 400>>

card_cost(s) == CostTable[s + 1]
Purchasable(s) == card_cost(s) # 0

\* the base tier (development level 0) of Card.rent_prices by index; for a
\* railroad the unit rent and for a utility the dice multiplier
RentTable ==
    <<0, 2, 0, 4, 0, 25, 6, 0, 6, 8,
      0, 10, 4, 10, 12, 25, 14, 0, 14, 16,
      0, 18, 0, 18, 20, 25, 22, 22, 4, 24,
      0, 26, 26, 0, 28, 25, 0, 35, 0, 50>>

\* the rents of a color property with one to four houses and with a hotel,
\* by its base rent
HouseRents(base) ==
    CASE base = 2  -> <<10, 30, 90, 160, 250>>
      [] base = 4  -> <<20, 60, 180, 320, 450>>
      [] base = 6  -> <<30, 90, 270, 400, 550>>
      [] base = 8  -> <<40, 100, 300, 450, 600>>
      [] base = 10 -> <<50, 150, 450, 625, 750>>
      [] base = 12 -> <<60, 180, 500, 700, 900>>
      [] base = 14 -> <<70, 200, 550, 750, 950>>
      [] base = 16 -> <<80, 220, 600, 800, 1000>>
      [] base = 18 -> <<90, 250, 700, 875, 1050>>
      [] base = 20 -> <<100, 300, 750, 925, 1100>>
      [] base = 22 -> <<110, 330, 800, 975, 1150>>
      [] base = 24 -> <<120, 360, 850, 1025, 1200>>
      [] base = 26 -> <<130, 390, 900, 1100, 1275>>
      [] base = 28 -> <<150, 450, 1000, 1200, 1400>>
      [] base = 35 -> <<175, 500, 1100, 1300, 1500>>
      [] base = 50 -> <<200, 600, 1400, 1700, 2000>>
      [] OTHER -> <<base, base, base, base, base>>

\* Card.rent_prices: the rent schedule, keyed by development level (0: no
\* house, 1..4: houses, 5: hotel); flat for railroads and utilities
rent_prices(s) ==
    [lvl \in 0..5 |->
        IF lvl = 0 \/ ~Purchasable(s) \/ s \in RailroadSpaces \cup UtilitySpaces
        THEN RentTable[s + 1]
        ELSE HouseRents(RentTable[s + 1])[lvl]]

color_group(s) ==
    IF s \in RailroadSpaces THEN "Railroad"
    ELSE IF s \in UtilitySpaces THEN "Utility"
    ELSE IF Purchasable(s) THEN "Color" ELSE "N/A"

\* no operation of the sources sets Card.mortgaged or Card.houses_built: the
\* mortgage flags of a game are those it starts with
mortgaged(s) == s \in mortgaged_spaces
mortgage_amt(s) == card_cost(s) \div 2
houses_built(s) == 0

----------------------------------------------------------------------------
(* The card catalogs: ids 1..16 are CHANCE_CARDS, 17..32 are               *)
(* COMMUNITY_CHEST_CARDS, in catalog order.                                *)

Cd(e, a, b, k) == [effect |-> e, param |-> a, param2 |-> b, keepable |-> k]

CHANCE_CARDS ==
    << Cd("move_to_position", 0, 0, FALSE),
       Cd("move_to_position", 24, 0, FALSE),
       Cd("move_to_position", 11, 0, FALSE),
       Cd("advance_to_nearest_railroad", 0, 0, FALSE),
       Cd("advance_to_nearest_railroad", 0, 0, FALSE),
       Cd("advance_to_nearest_utility", 0, 0, FALSE),
       Cd("receive_money", 50, 0, FALSE),
       Cd("get_out_of_jail_free", 0, 0, TRUE),
       Cd("move_relative", -3, 0, FALSE),
       Cd("go_to_jail", 0, 0, FALSE),
       Cd("property_repairs", 25, 100, FALSE),
       Cd("pay_money", 15, 0, FALSE),
       Cd("move_to_position", 5, 0, FALSE),
       Cd("move_to_position", 39, 0, FALSE),
       Cd("pay_money", 50, 0, FALSE),
       Cd("receive_money", 150, 0, FALSE) >>

COMMUNITY_CHEST_CARDS ==
    << Cd("advance_to_go", 0, 0, FALSE),
       Cd("receive_money", 200, 0, FALSE),
       Cd("pay_money", 50, 0, FALSE),
       Cd("receive_money", 50, 0, FALSE),
       Cd("get_out_of_jail_free", 0, 0, TRUE),
       Cd("go_to_jail", 0, 0, FALSE),
       Cd("receive_money", 100, 0, FALSE),
       Cd("receive_money", 20, 0, FALSE),
       Cd("collect_from_all_players", 10, 0, FALSE),
       Cd("receive_money", 100, 0, FALSE),
       Cd("pay_money", 100, 0, FALSE),
       Cd("pay_money", 50, 0, FALSE),
       Cd("receive_money", 25, 0, FALSE),
       Cd("street_repairs", 40, 115, FALSE),
       Cd("receive_money", 10, 0, FALSE),
       Cd("receive_money", 100, 0, FALSE) >>

ChanceIds == 1..Len(CHANCE_CARDS)
CommunityChestIds == (Len(CHANCE_CARDS) + 1)..(Len(CHANCE_CARDS) + Len(COMMUNITY_CHEST_CARDS))
CardIds == ChanceIds \cup CommunityChestIds

Catalog(id) ==
    IF id \in ChanceIds THEN CHANCE_CARDS[id]
    ELSE COMMUNITY_CHEST_CARDS[id - Len(CHANCE_CARDS)]

\* the card object with identity id
CardOf(id) ==
    [id |-> id, effect |-> Catalog(id).effect, param |-> Catalog(id).param,
     param2 |-> Catalog(id).param2, keepable |-> Catalog(id).keepable]

----------------------------------------------------------------------------
(* The world record and its commit *)

World ==
    [name |-> name, balance |-> balance, cards_owned |-> cards_owned,
     current_pos |-> current_pos, in_jail |-> in_jail,
     railroads_owned |-> railroads_owned, doubles_counter |-> doubles_counter,
     bankruptcy_status |-> bankruptcy_status,
     get_out_of_jail_cards |-> get_out_of_jail_cards, owner |-> owner,
     chance_cards |-> chance_cards, chance_discard |-> chance_discard,
     cc_cards |-> cc_cards, cc_discard |-> cc_discard,
     current_player_index |-> current_player_index,
     game_started |-> game_started, game_over |-> game_over,
     turn_phase |-> turn_phase, last_dice_roll |-> last_dice_roll,
     winner |-> winner, callbacks |-> callbacks,
     exc |-> "none", ret |-> 0, drawn |-> <<>>, reshuffles |-> 0, ended |-> <<>>,
     listed |-> FALSE, notified |-> 0, asked |-> 0, printed |-> "", success |-> TRUE]

Commit(w) ==
    /\ name' = w.name
    /\ balance' = w.balance
    /\ cards_owned' = w.cards_owned
    /\ current_pos' = w.current_pos
    /\ in_jail' = w.in_jail
    /\ railroads_owned' = w.railroads_owned
    /\ doubles_counter' = w.doubles_counter
    /\ bankruptcy_status' = w.bankruptcy_status
    /\ get_out_of_jail_cards' = w.get_out_of_jail_cards
    /\ owner' = w.owner
    /\ chance_cards' = w.chance_cards
    /\ chance_discard' = w.chance_discard
    /\ cc_cards' = w.cc_cards
    /\ cc_discard' = w.cc_discard
    /\ current_player_index' = w.current_player_index
    /\ game_started' = w.game_started
    /\ game_over' = w.game_over
    /\ turn_phase' = w.turn_phase
    /\ last_dice_roll' = w.last_dice_roll
    /\ winner' = w.winner
    /\ mortgaged_spaces' = mortgaged_spaces
    /\ callbacks' = callbacks

PlayersOf(w) == DOMAIN w.balance
Players == DOMAIN balance

\* the record kept in `last`: the operation, its acting player and argument,
\* the exception it ended with, the cards it drew, the reshuffles it made,
\* whether a mass transfer was given the player list, and the balances it
\* started from
Log(op, p, arg, w) ==
    [op |-> op, p |-> p, arg |-> arg, exc |-> w.exc, drawn |-> w.drawn,
     reshuffles |-> w.reshuffles, ended |-> w.ended, listed |-> w.listed,
     notified |-> w.notified, asked |-> w.asked, printed |-> w.printed, success |-> w.success,
     pre_balance |-> balance,
     pre_bankrupt |-> bankruptcy_status, pre_pos |-> current_pos]

RECURSIVE SumSeq(_)
SumSeq(s) == IF s = <<>> THEN 0 ELSE Head(s) + SumSeq(Tail(s))

\* F applied to the value of w, which is computed once
Strict(w, F(_)) == CHOOSE r \in {F(v) : v \in {w}} : TRUE

----------------------------------------------------------------------------
(* Money ledger: classes/player_definitions.py *)

add_balance(w, p, amount) ==
    [w EXCEPT !.balance[p] = @ + amount]

bankrupt_player_keeps_spaces(w, p) ==
    [w EXCEPT !.balance[p] = 0,
              !.railroads_owned[p] = 0,
              !.bankruptcy_status[p] = TRUE]

bankrupt_player(w, p) ==
    [w EXCEPT !.balance[p] = 0,
              !.owner = [s \in Spaces |->
                            IF s \in SeqToSet(w.cards_owned[p]) THEN Bank ELSE @[s]],
              !.railroads_owned[p] = 0,
              !.bankruptcy_status[p] = TRUE]

\* a net worth that counts a mortgaged property at its full price
net_worth_ignores_mortgage(w, p) ==
    SumSeq([i \in 1..Len(w.cards_owned[p]) |-> card_cost(w.cards_owned[p][i])])

net_worth(w, p) ==
    SumSeq([i \in 1..Len(w.cards_owned[p]) |->
               LET card == w.cards_owned[p][i]
               IN  IF mortgaged(card)
                   THEN card_cost(card) - mortgage_amt(card)
                   ELSE card_cost(card)])

\* the Bool check_if_bankrupt returns
is_bankrupt(w, p, amt_owed) == (w.balance[p] + net_worth(w, p)) < amt_owed

check_if_bankrupt(w, p, amt_owed) ==
    IF is_bankrupt(w, p, amt_owed) THEN bankrupt_player(w, p) ELSE w

reduce_balance_unchecked(w, p, amount) ==
    [w EXCEPT !.balance[p] = @ - amount]

\* a debit that takes what cash there is from a player who is short of the
\* amount and not bankrupt
reduce_balance_takes_cash(w, p, amount) ==
    IF w.balance[p] < amount
    THEN (IF is_bankrupt(w, p, amount) THEN bankrupt_player(w, p)
          ELSE [w EXCEPT !.balance[p] = 0])
    ELSE [w EXCEPT !.balance[p] = @ - amount]

reduce_balance(w, p, amount) ==
    IF w.balance[p] < amount
    THEN check_if_bankrupt(w, p, amount)
    ELSE [w EXCEPT !.balance[p] = @ - amount]

charge_rent_owner_unpaid(w, p, card) ==
    LET rent_amt == IF color_group(card) = "Railroad"
                    THEN RailroadRentUnit * w.railroads_owned[w.owner[card]]
                    ELSE rent_prices(card)[1]
    IN  reduce_balance(w, p, rent_amt)

charge_rent(w, p, card) ==
    LET rent_amt == IF color_group(card) = "Railroad"
                    THEN RailroadRentUnit * w.railroads_owned[w.owner[card]]
                    ELSE rent_prices(card)[1]
    IN  add_balance(reduce_balance(w, p, rent_amt), w.owner[card], rent_amt)

send_to_jail(w, p) ==
    [w EXCEPT !.current_pos[p] = JailPos, !.doubles_counter[p] = 0]

move_player(w, p, dice_amt) ==
    [w EXCEPT !.current_pos[p] = @ + dice_amt]

\* Card.purchase_card (classes/card_definitions.py)
purchase_card(w, card, p) ==
    IF w.owner[card] # Bank \/ mortgaged(card)
    THEN w
    ELSE LET w1 == reduce_balance(w, p, card_cost(card))
         IN  [w1 EXCEPT !.owner[card] = p,
                        !.cards_owned[p] = Append(@, card),
                        !.railroads_owned[p] =
                            IF color_group(card) = "Railroad" THEN @ + 1 ELSE @]

----------------------------------------------------------------------------
(* Decks: ChanceDeck and CommunityChestDeck (classes/chance_cards.py).     *)
(* random.shuffle makes every order of the draw pile possible, so the pile *)
(* is kept in id order and pop() takes the card the shuffle put last: any  *)
(* card of the pile, chosen by the caller of draw.                         *)

Less(a, b) == a < b

reshuffle_keeps_discard(w, deck) ==
    IF deck = "chance"
    THEN [w EXCEPT !.chance_cards = SortSeq(w.chance_discard, Less),
                   !.reshuffles = @ + 1]
    ELSE [w EXCEPT !.cc_cards = SortSeq(w.cc_discard, Less),
                   !.reshuffles = @ + 1]

Cards(w, deck) == IF deck = "chance" THEN w.chance_cards ELSE w.cc_cards
Discard(w, deck) == IF deck = "chance" THEN w.chance_discard ELSE w.cc_discard

SetCards(w, deck, pile) ==
    IF deck = "chance" THEN [w EXCEPT !.chance_cards = pile]
    ELSE [w EXCEPT !.cc_cards = pile]

SetDiscard(w, deck, pile) ==
    IF deck = "chance" THEN [w EXCEPT !.chance_discard = pile]
    ELSE [w EXCEPT !.cc_discard = pile]

\* the pile without its first occurrence of c
RemoveOne(pile, c) ==
    LET i == CHOOSE j \in 1..Len(pile) :
                 pile[j] = c /\ \A k \in 1..(j - 1) : pile[k] # c
    IN  SubSeq(pile, 1, i - 1) \o SubSeq(pile, i + 1, Len(pile))

reshuffle(w, deck) ==
    LET w1 == SetCards(w, deck, SortSeq(Discard(w, deck), Less))
    IN  [SetDiscard(w1, deck, <<>>) EXCEPT !.reshuffles = @ + 1]

\* the cards a draw may return: those of the pile it pops from
Drawable(w, deck) ==
    IF Cards(w, deck) = <<>> THEN SeqToSet(Discard(w, deck))
    ELSE SeqToSet(Cards(w, deck))

draw_discards_keepable(w, deck, c) ==
    LET w1 == IF Cards(w, deck) = <<>> THEN reshuffle(w, deck) ELSE w
    IN  IF Cards(w1, deck) = <<>>
        THEN [w1 EXCEPT !.exc = "IndexError"]
        ELSE LET w2 == SetCards(w1, deck, RemoveOne(Cards(w1, deck), c))
             IN  [SetDiscard(w2, deck, Append(Discard(w2, deck), c))
                     EXCEPT !.drawn = Append(@, c)]

\* draw() returning card c; pop() of an empty list raises IndexError
draw(w, deck, c) ==
    LET w1 == IF Cards(w, deck) = <<>> THEN reshuffle(w, deck) ELSE w
    IN  IF Cards(w1, deck) = <<>>
        THEN [w1 EXCEPT !.exc = "IndexError"]
        ELSE LET w2 == SetCards(w1, deck, RemoveOne(Cards(w1, deck), c))
                 w3 == IF ~CardOf(c).keepable
                       THEN SetDiscard(w2, deck, Append(Discard(w2, deck), c))
                       ELSE w2
             IN  [w3 EXCEPT !.drawn = Append(@, c)]

return_card(w, deck, c) == SetDiscard(w, deck, Append(Discard(w, deck), c))

----------------------------------------------------------------------------
(* Card effects: ChanceCardExecutor (classes/chance_cards.py).             *)
(* c is the card record, all_players the sequence of player indices        *)
(* passed, <<>> for None.                                                  *)
(* inp holds what the effect reads from outside: inp.buy (the answer to a  *)
(* purchase prompt) and inp.dice (the total of a roll_dice call).          *)

DiceTotals == {d1 + d2 : d1 \in 1..6, d2 \in 1..6}

\* check_pos is called with four positional arguments and accepts three:
\* the call raises TypeError before the body of check_pos runs
handle_move_to_position(w, c, p, all_players, inp) ==
    LET target_pos == c.param
        w1 == IF target_pos < w.current_pos[p] \/ target_pos = 0
              THEN add_balance(w, p, PassGoBonus) ELSE w
    IN  [w1 EXCEPT !.current_pos[p] = target_pos, !.exc = "TypeError"]

handle_move_relative_any_direction(w, c, p, all_players, inp) ==
    LET spaces == c.param
        old_pos == w.current_pos[p]
        new_pos == (old_pos + spaces) % BoardSize
        w1 == [w EXCEPT !.current_pos[p] = new_pos]
        w2 == IF new_pos < old_pos
              THEN add_balance(w1, p, PassGoBonus) ELSE w1
    IN  [w2 EXCEPT !.exc = "TypeError"]

handle_move_relative(w, c, p, all_players, inp) ==
    LET spaces == c.param
        old_pos == w.current_pos[p]
        new_pos == (old_pos + spaces) % BoardSize
        w1 == [w EXCEPT !.current_pos[p] = new_pos]
        w2 == IF spaces > 0 /\ new_pos < old_pos
              THEN add_balance(w1, p, PassGoBonus) ELSE w1
    IN  [w2 EXCEPT !.exc = "TypeError"]

handle_pay_money(w, c, p, all_players, inp) ==
    reduce_balance(w, p, c.param)

handle_receive_money(w, c, p, all_players, inp) ==
    add_balance(w, p, c.param)

handle_go_to_jail_flag_unset(w, c, p, all_players, inp) ==
    send_to_jail(w, p)

handle_go_to_jail(w, c, p, all_players, inp) ==
    [send_to_jail(w, p) EXCEPT !.in_jail[p] = TRUE]

handle_get_out_of_jail_free(w, c, p, all_players, inp) ==
    [w EXCEPT !.get_out_of_jail_cards[p] = Append(@, c.id)]

\* total_cost of property_repairs and street_repairs
repair_cost(w, p, house_cost, hotel_cost) ==
    SumSeq([i \in 1..Len(w.cards_owned[p]) |->
               LET h == houses_built(w.cards_owned[p][i])
               IN  IF h > 0
                   THEN (IF h = 5 THEN hotel_cost ELSE h * house_cost)
                   ELSE 0])

handle_property_repairs(w, c, p, all_players, inp) ==
    LET total_cost == repair_cost(w, p, c.param, c.param2)
    IN  IF total_cost > 0 THEN reduce_balance(w, p, total_cost) ELSE w

handle_street_repairs(w, c, p, all_players, inp) ==
    LET total_cost == repair_cost(w, p, c.param, c.param2)
    IN  IF total_cost > 0 THEN reduce_balance(w, p, total_cost) ELSE w

\* the first position of the list strictly greater than pos, 0 when none is
\* a scan that stops at a target not behind the player
NextIn_not_strict(positions, pos) ==
    IF \E i \in 1..Len(positions) : positions[i] >= pos
    THEN positions[CHOOSE i \in 1..Len(positions) :
                       /\ positions[i] >= pos
                       /\ \A j \in 1..(i - 1) : ~(positions[j] >= pos)]
    ELSE 0

NextIn(positions, pos) ==
    IF \E i \in 1..Len(positions) : positions[i] > pos
    THEN positions[CHOOSE i \in 1..Len(positions) :
                       /\ positions[i] > pos
                       /\ \A j \in 1..(i - 1) : ~(positions[j] > pos)]
    ELSE 0

\* the purchase offer of the two advance-to-nearest effects
offer_purchase(w, card, p, inp) ==
    IF w.name[p] = "AI"
    THEN (IF w.balance[p] > card_cost(card) THEN purchase_card(w, card, p) ELSE w)
    ELSE (IF inp.buy THEN purchase_card(w, card, p) ELSE w)

advance_to_nearest(w, p, positions, inp, rent_of) ==
    LET ahead == NextIn(positions, w.current_pos[p])
        target == IF ahead = 0 THEN positions[1] ELSE ahead
        w1 == IF ahead = 0 THEN add_balance(w, p, PassGoBonus) ELSE w
        w2 == [w1 EXCEPT !.current_pos[p] = target]
        o == w2.owner[target]
    IN  IF o # Bank /\ w2.name[o] # w2.name[p]
        THEN add_balance(reduce_balance(w2, p, rent_of[o]), o, rent_of[o])
        ELSE IF o = Bank THEN offer_purchase(w2, target, p, inp) ELSE w2

handle_advance_to_nearest_railroad_single_rent(w, c, p, all_players, inp) ==
    advance_to_nearest(w, p, railroad_positions, inp,
        [o \in PlayersOf(w) |-> RailroadRentUnit * w.railroads_owned[o]])

handle_advance_to_nearest_railroad(w, c, p, all_players, inp) ==
    advance_to_nearest(w, p, railroad_positions, inp,
        [o \in PlayersOf(w) |-> RailroadDoubleRentUnit * w.railroads_owned[o]])

\* a utility rent that follows the number of utilities the owner holds
handle_advance_to_nearest_utility_by_count(w, c, p, all_players, inp) ==
    advance_to_nearest(w, p, utility_positions, inp,
        [o \in PlayersOf(w) |->
            inp.dice * (IF UtilitySpaces \subseteq SeqToSet(w.cards_owned[o])
                        THEN UtilityCardMultiplier ELSE 4)])

handle_advance_to_nearest_utility(w, c, p, all_players, inp) ==
    advance_to_nearest(w, p, utility_positions, inp,
        [o \in PlayersOf(w) |-> inp.dice * UtilityCardMultiplier])

\* the loop of collect_from_all_players over all_players[i..]
RECURSIVE collect_loop(_, _, _, _, _)
collect_loop(w, p, amount, all_players, i) ==
    IF i > Len(all_players) THEN w
    ELSE LET other == all_players[i]
         IN  IF other # p /\ ~w.bankruptcy_status[other]
             THEN collect_loop(
                      [reduce_balance(w, other, amount) EXCEPT !.ret = @ + amount],
                      p, amount, all_players, i + 1)
             ELSE collect_loop(w, p, amount, all_players, i + 1)

handle_collect_from_all_players(w, c, p, all_players, inp) ==
    LET amount == c.param
    IN  IF all_players # <<>>
        THEN LET w1 == collect_loop([w EXCEPT !.ret = 0, !.listed = TRUE],
                                    p, amount, all_players, 1)
             IN  [add_balance(w1, p, w1.ret) EXCEPT !.ret = 0]
        ELSE add_balance(w, p, amount)

\* the loop of pay_to_all_players over all_players[i..]
RECURSIVE pay_loop(_, _, _, _, _)
pay_loop(w, p, amount, all_players, i) ==
    IF i > Len(all_players) THEN w
    ELSE LET other == all_players[i]
         IN  IF other # p /\ ~w.bankruptcy_status[other]
             THEN pay_loop(
                      [add_balance(w, other, amount) EXCEPT !.ret = @ + amount],
                      p, amount, all_players, i + 1)
             ELSE pay_loop(w, p, amount, all_players, i + 1)

handle_pay_to_all_players(w, c, p, all_players, inp) ==
    LET amount == c.param
    IN  IF all_players # <<>>
        THEN LET w1 == pay_loop([w EXCEPT !.ret = 0, !.listed = TRUE],
                                p, amount, all_players, 1)
             IN  [reduce_balance(w1, p, w1.ret) EXCEPT !.ret = 0]
        ELSE reduce_balance(w, p, amount)

handle_advance_to_go(w, c, p, all_players, inp) ==
    add_balance([w EXCEPT !.current_pos[p] = 0], p, PassGoBonus)

\* ChanceCardExecutor.execute: dispatch on the effect kind
execute(w, c, p, all_players, inp) ==
    LET e == c.effect
    IN  CASE e = "move_to_position" -> handle_move_to_position(w, c, p, all_players, inp)
          [] e = "move_relative" -> handle_move_relative(w, c, p, all_players, inp)
          [] e = "pay_money" -> handle_pay_money(w, c, p, all_players, inp)
          [] e = "receive_money" -> handle_receive_money(w, c, p, all_players, inp)
          [] e = "go_to_jail" -> handle_go_to_jail(w, c, p, all_players, inp)
          [] e = "get_out_of_jail_free" -> handle_get_out_of_jail_free(w, c, p, all_players, inp)
          [] e = "property_repairs" -> handle_property_repairs(w, c, p, all_players, inp)
          [] e = "street_repairs" -> handle_street_repairs(w, c, p, all_players, inp)
          [] e = "advance_to_nearest_railroad" ->
                 handle_advance_to_nearest_railroad(w, c, p, all_players, inp)
          [] e = "advance_to_nearest_utility" ->
                 handle_advance_to_nearest_utility(w, c, p, all_players, inp)
          [] e = "collect_from_all_players" ->
                 handle_collect_from_all_players(w, c, p, all_players, inp)
          [] e = "pay_to_all_players" ->
                 handle_pay_to_all_players(w, c, p, all_players, inp)
          [] e = "advance_to_go" -> handle_advance_to_go(w, c, p, all_players, inp)

----------------------------------------------------------------------------
(* Landing resolution: Player.check_pos (classes/player_definitions.py).   *)
(* decks is the set of decks passed ("chance", "cc"); inp.card is the card *)
(* a draw returns. ret = 1 is the value returned to the AI's caller.       *)

\* draw from the deck, then card.execute(self, board): no player list
\* a landing whose chain of draws goes on: two more cards are drawn before
\* the effect is run
draw_and_execute_chained(w, deck, p, inp) ==
    LET again(v) == IF v.exc # "none" \/ Drawable(v, deck) = {} THEN v
                    ELSE draw(v, deck, CHOOSE c \in Drawable(v, deck) : TRUE)
        w1 == again(again(draw(w, deck, inp.card)))
    IN  IF w1.exc # "none" THEN w1
        ELSE execute(w1, CardOf(inp.card), p, <<>>, inp)

draw_and_execute(w, deck, p, inp) ==
    LET w1 == draw(w, deck, inp.card)
    IN  IF w1.exc # "none" THEN w1
        ELSE execute(w1, CardOf(inp.card), p, <<>>, inp)

check_pos(w, p, decks, inp) ==
    LET w0 == [w EXCEPT !.current_pos[p] = @ % BoardSize, !.ret = 0]
        s == w0.current_pos[p]
        nm == card_name(s)
    IN  IF ~Purchasable(s)
        THEN CASE nm = "Luxury Tax" -> reduce_balance(w0, p, LuxuryTaxAmount)
               [] nm = "Income Tax" -> reduce_balance(w0, p, IncomeTaxAmount)
               [] nm = "Go to Jail" -> send_to_jail(w0, p)
               [] nm = "Chance" /\ "chance" \in decks ->
                      draw_and_execute(w0, "chance", p, inp)
               [] nm = "Community Chest" /\ "cc" \in decks ->
                      draw_and_execute(w0, "cc", p, inp)
               [] OTHER -> w0
        ELSE IF mortgaged(s) THEN w0
        ELSE IF w0.owner[s] # Bank
        THEN (IF w0.name[w0.owner[s]] = w0.name[p] THEN w0
              ELSE charge_rent(w0, p, s))
        ELSE IF w0.name[p] = "AI" THEN [w0 EXCEPT !.ret = 1]
        ELSE IF inp.buy THEN purchase_card(w0, s, p)
        ELSE w0

----------------------------------------------------------------------------
(* Jail release: Player.release_from_jail (classes/player_definitions.py). *)
(* inp.use_card and inp.pay_bail are the answers to its two prompts.       *)

release_from_jail(w, p, inp) ==
    LET w0 == [w EXCEPT !.doubles_counter[p] = 0]
        held == w0.get_out_of_jail_cards[p]
    IN  IF held # <<>> /\ inp.use_card
        THEN \* the popped card is dropped: no deck reference is at hand
             move_player([w0 EXCEPT !.get_out_of_jail_cards[p] =
                                        SubSeq(held, 1, Len(held) - 1),
                                    !.in_jail[p] = FALSE],
                         p, inp.dice)
        ELSE IF inp.pay_bail
        THEN move_player([reduce_balance(w0, p, BailAmount)
                             EXCEPT !.in_jail[p] = FALSE],
                         p, inp.dice)
        ELSE \* doubles_counter was just reset: the doubles branch is never taken
             w0

----------------------------------------------------------------------------
(* Shared pieces of the initial states *)

GuiNames == [i \in 0..2 |-> IF i = 0 THEN "Player 1"
                            ELSE IF i = 1 THEN "Player 2" ELSE "AI"]

\* the owner pointers that agree with the given owned-property collections
OwnerFrom(owned) ==
    [s \in Spaces |->
        IF \E p \in DOMAIN owned : s \in SeqToSet(owned[p])
        THEN CHOOSE p \in DOMAIN owned : s \in SeqToSet(owned[p])
        ELSE Bank]

RailroadCount(cards) == Cardinality(SeqToSet(cards) \cap RailroadSpaces)

FullChance == [i \in ChanceIds |-> i]
FullCommunityChest == [i \in 1..Len(COMMUNITY_CHEST_CARDS) |-> Len(CHANCE_CARDS) + i]

NoInput ==
    [card |-> 0, buy |-> FALSE, dice |-> 2, use_card |-> FALSE, pay_bail |-> FALSE,
     roll |-> 2, rank |-> 0, ai_roll |-> 2, ai_rank |-> 0, ai_buy |-> FALSE,
     ai_leave |-> "stay"]

AllPlayers(w) == [i \in 1..Cardinality(PlayersOf(w)) |-> i - 1]

----------------------------------------------------------------------------
(* SpecLedger: one ledger operation or card effect applied to a mid-game   *)
(* state. The initial states are the mid-game states drawn below.          *)

LedgerAmounts == {50, 200, 2000}
LedgerPositions == {4, 5, 33}
LedgerDice == {2, 12}

InitLedger ==
    \E b0 \in {40, 1500}, b1 \in {5, 1500}, b2 \in {0, 5, 1500},
       k \in 0..Len(railroad_positions), own0 \in {<<>>, <<1>>},
       q \in LedgerPositions :
        /\ name = GuiNames
        /\ balance = [i \in 0..2 |-> IF i = 0 THEN b0 ELSE IF i = 1 THEN b1 ELSE b2]
        /\ cards_owned = [i \in 0..2 |->
                             IF i = 0 THEN own0
                             ELSE IF i = 1 THEN SubSeq(railroad_positions, 1, k)
                             ELSE <<>>]
        /\ current_pos = [i \in 0..2 |-> q]
        /\ in_jail = [i \in 0..2 |-> FALSE]
        /\ railroads_owned = [i \in 0..2 |-> IF i = 1 THEN k ELSE 0]
        /\ doubles_counter = [i \in 0..2 |-> 0]
        /\ bankruptcy_status = [i \in 0..2 |-> i = 2 /\ b2 = 0]
        /\ get_out_of_jail_cards = [i \in 0..2 |-> <<>>]
        /\ owner = OwnerFrom(cards_owned)
        /\ chance_cards = FullChance
        /\ chance_discard = <<>>
        /\ cc_cards = FullCommunityChest
        /\ cc_discard = <<>>
        /\ current_player_index = 0
        /\ game_started = FALSE
        /\ game_over = FALSE
        /\ turn_phase = "waiting_for_roll"
        /\ last_dice_roll = 0
        /\ winner = NoPlayer
        /\ mortgaged_spaces = {}
        /\ callbacks = FALSE
        /\ last = Log("init", NoPlayer, 0, World)
        /\ ops = 0

\* commit the result of one operation and record it
Apply(op, p, arg, w) ==
    \E v \in {w} :
        /\ Commit(v)
        /\ last' = Log(op, p, arg, v)
        /\ ops' = ops + 1

LAddBalance ==
    /\ ops = 0
    /\ \E p \in Players, amount \in LedgerAmounts :
        /\ Apply("add_balance", p, amount, add_balance(World, p, amount))

LReduceBalance ==
    /\ ops = 0
    /\ \E p \in Players, amount \in LedgerAmounts :
        /\ Apply("reduce_balance", p, amount, reduce_balance(World, p, amount))

LChargeRent ==
    /\ ops = 0
    /\ \E p \in Players, card \in Spaces :
        /\ owner[card] # Bank
        /\ owner[card] # p
        /\ Apply("charge_rent", p, card, charge_rent(World, p, card))

\* the inputs an effect can read: the others are held at their defaults
InputsOf(c) ==
    {[NoInput EXCEPT !.buy = b, !.dice = d] :
        b \in IF c.effect \in {"advance_to_nearest_railroad", "advance_to_nearest_utility"}
              THEN BOOLEAN ELSE {FALSE},
        d \in IF c.effect = "advance_to_nearest_utility" THEN DiceTotals ELSE {2}}

\* a pay_to_all_players card: the effect kind has a handler and no catalog card
PayEachPlayerCard ==
    [id |-> 0, effect |-> "pay_to_all_players", param |-> 50, param2 |-> 0,
     keepable |-> FALSE]

LExecute ==
    /\ ops = 0
    /\ \E p \in Players, c \in {CardOf(i) : i \in CardIds} \cup {PayEachPlayerCard},
       all_players \in {<<>>, AllPlayers(World)} :
        \E inp \in InputsOf(c) :
            /\ all_players # <<>> =>
                   c.effect \in {"collect_from_all_players", "pay_to_all_players"}
            /\ Apply(c.effect, p, c.id, execute(World, c, p, all_players, inp))

LCheckPos ==
    /\ ops = 0
    /\ \E p \in Players, decks \in {{}, {"chance", "cc"}}, c \in CardIds, b \in BOOLEAN :
        /\ LET s == current_pos[p] % BoardSize
           IN  /\ c \in (IF card_name(s) = "Chance" /\ "chance" \in decks
                         THEN Drawable(World, "chance")
                         ELSE IF card_name(s) = "Community Chest" /\ "cc" \in decks
                         THEN Drawable(World, "cc")
                         ELSE {1})
               /\ \E inp \in {[i EXCEPT !.card = c] :
                                 i \in InputsOf(CardOf(c)) \cup {[NoInput EXCEPT !.buy = b]}} :
                      Apply("check_pos", p, s, check_pos(World, p, decks, inp))

LReleaseFromJail ==
    /\ ops = 0
    /\ \E p \in Players, bail \in BOOLEAN, d \in LedgerDice :
        /\ Apply("release_from_jail", p, d,
                 release_from_jail(World, p, [NoInput EXCEPT !.pay_bail = bail, !.dice = d]))

NextLedger ==
    \/ LAddBalance
    \/ LReduceBalance
    \/ LChargeRent
    \/ LExecute
    \/ LCheckPos
    \/ LReleaseFromJail

SpecLedger == InitLedger /\ [][NextLedger]_vars

----------------------------------------------------------------------------
(* Properties of the ledger, checked under SpecLedger *)

NewlyBankrupt(p) == bankruptcy_status[p] /\ ~last.pre_bankrupt[p]

C2_InsolventDebitBankrupts ==
    [][\A p \in Players :
          (/\ last'.op = "reduce_balance"
           /\ last'.p = p
           /\ balance[p] + net_worth(World, p) < last'.arg)
          => (/\ balance'[p] = 0
              /\ bankruptcy_status'[p]
              /\ railroads_owned'[p] = 0
              /\ \A s \in Spaces : owner[s] = p => owner'[s] = Bank)]_vars

\* C2 witness: reduce_balance has bankrupted a player who owned a railroad.
C2_Witness ==
    /\ last.op = "reduce_balance"
    /\ NewlyBankrupt(last.p)
    /\ RailroadCount(cards_owned[last.p]) > 0
    /\ last.pre_balance[last.p] + net_worth(World, last.p) < last.arg

\* C3: after a player is declared bankrupt, that player's owned-property
\* collection is empty, whatever the player owned before.
C3_BankruptOwnsNothing ==
    \A p \in Players : NewlyBankrupt(p) => cards_owned[p] = <<>>

\* the pass-start bonus the advance-to-nearest effect credits from pos
WrapBonus(positions, pos) == IF NextIn(positions, pos) = 0 THEN 200 ELSE 0

\* p paid r to o in this step, p having received bonus first; when p cannot
\* cover r the owner is credited all the same
Paid(p, o, r, bonus) ==
    /\ balance'[o] = balance[o] + r
    /\ balance[p] + bonus >= r => balance'[p] = balance[p] + bonus - r

NearestRailroad(pos) ==
    IF NextIn(railroad_positions, pos) = 0 THEN railroad_positions[1]
    ELSE NextIn(railroad_positions, pos)

\* C9: landing on a railroad owned by another player who owns N railroads
\* charges 25 * N on a direct landing (charge_rent) and 50 * N on a landing
\* caused by the advance-to-nearest-railroad card, for every N in 1..4.
C9_RailroadRent ==
    [][\A p \in Players :
          /\ (last'.op = "charge_rent" /\ last'.p = p /\ last'.arg \in RailroadSpaces)
             => LET o == owner[last'.arg]
                IN  Paid(p, o, 25 * RailroadCount(cards_owned[o]), 0)
          /\ (/\ last'.op = "check_pos" /\ last'.p = p
              /\ last'.arg \in RailroadSpaces
              /\ owner[last'.arg] \notin {Bank, p})
             => LET o == owner[last'.arg]
                IN  Paid(p, o, 25 * RailroadCount(cards_owned[o]), 0)
          /\ (/\ last'.op = "advance_to_nearest_railroad" /\ last'.p = p
              /\ owner[NearestRailroad(current_pos[p])] \notin {Bank, p})
             => LET o == owner[NearestRailroad(current_pos[p])]
                IN  Paid(p, o, 50 * RailroadCount(cards_owned[o]),
                         WrapBonus(railroad_positions, current_pos[p]))]_vars

\* C9 witness: the card has charged a solvent player the double rent of an owner
\* of all four railroads, that is 200.
C9_Witness ==
    /\ last.op = "advance_to_nearest_railroad"
    /\ \E o \in Players :
          /\ o # last.p
          /\ RailroadCount(cards_owned[o]) = 4
          /\ owner[current_pos[last.p]] = o
          /\ balance[o] = last.pre_balance[o] + 200
          /\ balance[last.p] = last.pre_balance[last.p] - 200

\* the number of non-bankrupt players other than p
OthersActive(p) == Cardinality({q \in Players : q # p /\ ~bankruptcy_status[q]})

\* the step resolved a collect_from_all_players card for p: executed
\* directly, or drawn by landing resolution
ResolvedCollect(p) ==
    /\ last'.p = p
    /\ \/ last'.op = "collect_from_all_players"
       \/ /\ last'.op = "check_pos"
          /\ last'.drawn # <<>>
          /\ CardOf(last'.drawn[1]).effect = "collect_from_all_players"

\* C10: resolving a collect_from_all_players card with amount A for an acting
\* player with P other non-bankrupt players increases the acting player's
\* balance by exactly A * P and decreases each of those players' balances by
\* exactly A, whatever their balances and however the card was reached.
C10_CollectFromAll ==
    [][\A p \in Players :
          ResolvedCollect(p)
          => /\ balance'[p] = balance[p] + 10 * OthersActive(p)
             /\ \A q \in Players :
                   (q # p /\ ~bankruptcy_status[q]) => balance'[q] = balance[q] - 10]_vars

\* C11: a pay_to_all_players effect of amount 50 resolved over the player
\* list with P other non-bankrupt players credits each of them exactly 50,
\* credits nothing to bankrupt players, and debits the acting player the
\* aggregate 50 * P.
C11_PayToAll ==
    [][\A p \in Players :
          (last'.op = "pay_to_all_players" /\ last'.p = p /\ last'.listed)
          => /\ \A q \in Players \ {p} :
                   balance'[q] = balance[q] + (IF bankruptcy_status[q] THEN 0 ELSE 50)
             /\ balance'[p] = balance[p] - 50 * OthersActive(p)]_vars

\* the credits of C11 alone: every other non-bankrupt player receives 50 and
\* bankrupt players receive nothing
C11_PayeesCredited ==
    [][\A p \in Players :
          (last'.op = "pay_to_all_players" /\ last'.p = p /\ last'.listed)
          => \A q \in Players \ {p} :
                balance'[q] = balance[q] + (IF bankruptcy_status[q] THEN 0 ELSE 50)]_vars

\* the step resolved a go_to_jail card for p: executed directly, or drawn by
\* landing resolution
ResolvedGoToJail(p) ==
    /\ last'.p = p
    /\ \/ last'.op = "go_to_jail"
       \/ /\ last'.op = "check_pos"
          /\ last'.drawn # <<>>
          /\ CardOf(last'.drawn[1]).effect = "go_to_jail"

\* C16: the go_to_jail card effect leaves the acting player on index 10 with
\* doubles counter 0 and the jail flag set, changes no balance and no
\* ownership, and triggers no landing resolution and no further card draw.
C16_GoToJailCard ==
    [][\A p \in Players :
          ResolvedGoToJail(p)
          => /\ current_pos'[p] = 10
             /\ doubles_counter'[p] = 0
             /\ in_jail'[p]
             /\ last'.exc = "none"
             /\ Len(last'.drawn) <= 1
             /\ balance' = balance
             /\ owner' = owner
             /\ cards_owned' = cards_owned
             /\ railroads_owned' = railroads_owned
             /\ get_out_of_jail_cards' = get_out_of_jail_cards
             /\ \A q \in Players \ {p} :
                   current_pos'[q] = current_pos[q] /\ in_jail'[q] = in_jail[q]]_vars

\* C16 witness: a player who stood on Community Chest (33) and was not in
\* jail has drawn a go_to_jail card there and is in jail on index 10.
C16_Witness ==
    /\ last.op = "check_pos"
    /\ last.pre_pos[last.p] = 33
    /\ last.drawn # <<>>
    /\ CardOf(last.drawn[1]).effect = "go_to_jail"
    /\ current_pos[last.p] = 10
    /\ in_jail[last.p]

----------------------------------------------------------------------------
(* SpecMove: one position-changing card effect applied from every board    *)
(* position, for every card parameter within the bounds.                   *)

\* largest offset of a move_relative card, in either direction
MaxSpaces == 12

MoveOffsets == (0 - MaxSpaces)..MaxSpaces

MoveCard(effect, param) ==
    [id |-> 0, effect |-> effect, param |-> param, param2 |-> 0, keepable |-> FALSE]

InitMove ==
    \E q \in Spaces :
        /\ name = GuiNames
        /\ balance = [i \in 0..2 |-> StartBalance]
        /\ cards_owned = [i \in 0..2 |-> <<>>]
        /\ current_pos = [i \in 0..2 |-> q]
        /\ in_jail = [i \in 0..2 |-> FALSE]
        /\ railroads_owned = [i \in 0..2 |-> 0]
        /\ doubles_counter = [i \in 0..2 |-> 0]
        /\ bankruptcy_status = [i \in 0..2 |-> FALSE]
        /\ get_out_of_jail_cards = [i \in 0..2 |-> <<>>]
        /\ owner = [s \in Spaces |-> Bank]
        /\ chance_cards = FullChance
        /\ chance_discard = <<>>
        /\ cc_cards = FullCommunityChest
        /\ cc_discard = <<>>
        /\ current_player_index = 0
        /\ game_started = FALSE
        /\ game_over = FALSE
        /\ turn_phase = "waiting_for_roll"
        /\ last_dice_roll = 0
        /\ winner = NoPlayer
        /\ mortgaged_spaces = {}
        /\ callbacks = FALSE
        /\ last = Log("init", NoPlayer, 0, World)
        /\ ops = 0

MMoveToPosition ==
    /\ ops = 0
    /\ \E p \in Players, target \in Spaces :
          Apply("move_to_position", p, target,
                execute(World, MoveCard("move_to_position", target), p, <<>>, NoInput))

MMoveRelative ==
    /\ ops = 0
    /\ \E p \in Players, spaces \in MoveOffsets :
          Apply("move_relative", p, spaces,
                execute(World, MoveCard("move_relative", spaces), p, <<>>, NoInput))

NextMove ==
    \/ MMoveToPosition
    \/ MMoveRelative

SpecMove == InitMove /\ [][NextMove]_vars

\* a move of `steps` spaces forward from `old` passes or lands on index 0
PassesStart(old, steps) == \E k \in 1..steps : (old + k) % 40 = 0

\* a move of `steps` spaces backward from `old` passes or lands on index 0
PassesStartBackward(old, steps) == \E k \in 1..steps : (old - k) % 40 = 0

\* the number of spaces a jump to `target` advances from `old`
Advance(old, target) == (target - old) % 40

Credited(p) == balance[p] - last.pre_balance[p]

\* C8 as claimed: for every starting position and card parameter,
\* move_to_position and move_relative credit the 200 pass-start bonus if and
\* only if the movement wraps past the start index or lands exactly on it, and
\* at most once.
C8_BonusIffWrapOrLand ==
    /\ last.op = "move_to_position" =>
          LET p == last.p  old == last.pre_pos[p]
          IN  /\ Credited(p) \in {0, 200}
              /\ Credited(p) = 200 <=>
                     (PassesStart(old, Advance(old, last.arg)) \/ last.arg = 0)
    /\ last.op = "move_relative" =>
          LET p == last.p  old == last.pre_pos[p]
          IN  /\ Credited(p) \in {0, 200}
              /\ Credited(p) = 200 <=>
                     IF last.arg >= 0 THEN PassesStart(old, last.arg)
                     ELSE PassesStartBackward(old, 0 - last.arg)

\* C8 amended: move_to_position credits the bonus if and only if the jump
\* wraps past the start index or its target is the start index; move_relative
\* credits it if and only if the offset is positive and the move wraps past
\* or lands on the start index (a backward move never credits it); the bonus
\* is credited at most once per movement.
C8_BonusIffForwardWrapOrLand ==
    /\ last.op = "move_to_position" =>
          LET p == last.p  old == last.pre_pos[p]
          IN  /\ Credited(p) \in {0, 200}
              /\ Credited(p) = 200 <=>
                     (PassesStart(old, Advance(old, last.arg)) \/ last.arg = 0)
    /\ last.op = "move_relative" =>
          LET p == last.p  old == last.pre_pos[p]
          IN  /\ Credited(p) \in {0, 200}
              /\ Credited(p) = 200 <=>
                     (last.arg > 0 /\ PassesStart(old, last.arg))

\* C8 witness: a forward move_relative has wrapped past the start index and
\* the bonus was credited.
C8_Witness ==
    /\ last.op = "move_relative"
    /\ last.arg > 0
    /\ current_pos[last.p] < last.pre_pos[last.p]
    /\ current_pos[last.p] > 0
    /\ Credited(last.p) = 200

\* the tax landing resolution debits on space s
LandingTax(s) ==
    IF card_name(s) = "Income Tax" THEN 200
    ELSE IF card_name(s) = "Luxury Tax" THEN 75 ELSE 0

\* C15: after a move_to_position or move_relative effect has changed the
\* player's position, landing resolution for the new space has been carried
\* out (seen here on the tax spaces, whose tax is debited) and the effect has
\* completed without a fatal error.
C15_MoveThenLanding ==
    last.op \in {"move_to_position", "move_relative"}
    => /\ last.exc = "none"
       /\ LandingTax(current_pos[last.p]) > 0
          => Credited(last.p) \in {0 - LandingTax(current_pos[last.p]),
                                   200 - LandingTax(current_pos[last.p])}

----------------------------------------------------------------------------
(* SpecDeck: the two decks in a console game. The player whose turn it is  *)
(* lands on a Chance or Community Chest space (check_pos draws and         *)
(* executes with both decks passed), or leaves jail (release_from_jail).   *)

\* operations per behaviour of SpecDeck
MaxDeckOps == 2

DeckDice == {7}

\* the pile states a deck starts from: untouched; drawn out; one card left;
\* the escape-jail card drawn first and held by the first player
DeckStarts(full, keep) ==
    { [cards |-> full, discard |-> <<>>, held |-> <<>>],
      [cards |-> <<>>, discard |-> full, held |-> <<>>],
      [cards |-> <<keep>>, discard |-> SelectSeq(full, LAMBDA c : c # keep), held |-> <<>>],
      [cards |-> SelectSeq(full, LAMBDA c : c # keep), discard |-> <<>>, held |-> <<keep>>] }

InitDeck ==
    \E ch \in DeckStarts(FullChance, 8), cc \in DeckStarts(FullCommunityChest, 21) :
        /\ name = GuiNames
        /\ balance = [i \in 0..2 |-> StartBalance]
        /\ cards_owned = [i \in 0..2 |-> <<>>]
        /\ current_pos = [i \in 0..2 |-> 0]
        /\ in_jail = [i \in 0..2 |-> FALSE]
        /\ railroads_owned = [i \in 0..2 |-> 0]
        /\ doubles_counter = [i \in 0..2 |-> 0]
        /\ bankruptcy_status = [i \in 0..2 |-> FALSE]
        /\ get_out_of_jail_cards = [i \in 0..2 |-> IF i = 0 THEN ch.held \o cc.held ELSE <<>>]
        /\ owner = [s \in Spaces |-> Bank]
        /\ chance_cards = ch.cards
        /\ chance_discard = ch.discard
        /\ cc_cards = cc.cards
        /\ cc_discard = cc.discard
        /\ current_player_index = 0
        /\ game_started = FALSE
        /\ game_over = FALSE
        /\ turn_phase = "waiting_for_roll"
        /\ last_dice_roll = 0
        /\ winner = NoPlayer
        /\ mortgaged_spaces = {}
        /\ callbacks = FALSE
        /\ last = Log("init", NoPlayer, 0, World)
        /\ ops = 0

\* the turn passes to the next player of the list (driver lines 58, 92)
NextTurn(w) ==
    [w EXCEPT !.current_player_index = (@ + 1) % Cardinality(PlayersOf(w))]

DDrawChance ==
    /\ ops < MaxDeckOps
    /\ \E c \in Drawable(World, "chance") :
          Apply("draw_chance", current_player_index, c,
                NextTurn(draw_and_execute(World, "chance", current_player_index,
                                          [NoInput EXCEPT !.card = c])))

DDrawCommunityChest ==
    /\ ops < MaxDeckOps
    /\ \E c \in Drawable(World, "cc") :
          Apply("draw_cc", current_player_index, c,
                NextTurn(draw_and_execute(World, "cc", current_player_index,
                                          [NoInput EXCEPT !.card = c])))

DReleaseFromJail ==
    /\ ops < MaxDeckOps
    /\ \E use \in BOOLEAN, bail \in BOOLEAN, d \in DeckDice :
          Apply("release_from_jail", current_player_index, d,
                NextTurn(release_from_jail(World, current_player_index,
                    [NoInput EXCEPT !.use_card = use, !.pay_bail = bail, !.dice = d])))

NextDeck ==
    \/ DDrawChance
    \/ DDrawCommunityChest
    \/ DReleaseFromJail

SpecDeck == InitDeck /\ [][NextDeck]_vars

\* the number of times x occurs in the sequence s
Occ(s, x) == Cardinality({i \in 1..Len(s) : s[i] = x})

\* the number of copies of card x players hold
Held(x) == SumSeq([i \in 1..Cardinality(Players) |-> Occ(get_out_of_jail_cards[i - 1], x)])

\* C6: for each deck, in every reachable state, the draw pile, the discard
\* pile and the escape-jail cards players hold together contain exactly the
\* original cards of that deck: none lost, none duplicated.
C6_DeckConservation ==
    /\ \A x \in ChanceIds : Occ(chance_cards, x) + Occ(chance_discard, x) + Held(x) = 1
    /\ \A x \in CommunityChestIds : Occ(cc_cards, x) + Occ(cc_discard, x) + Held(x) = 1
    /\ SeqToSet(chance_cards) \cup SeqToSet(chance_discard) \subseteq ChanceIds
    /\ SeqToSet(cc_cards) \cup SeqToSet(cc_discard) \subseteq CommunityChestIds

\* what draw() of this step did to a deck whose piles were cards and discard
DrawContract(cards, discard, cardsAfter, discardAfter) ==
    LET c == last'.drawn[1]
    IN  /\ last'.exc # "IndexError"
        /\ Len(last'.drawn) = 1
        /\ last'.reshuffles = (IF cards = <<>> THEN 1 ELSE 0)
        /\ cards = <<>> =>
              /\ discard # <<>>
              /\ cardsAfter = RemoveOne(SortSeq(discard, Less), c)
              /\ discardAfter = (IF CardOf(c).keepable THEN <<>> ELSE <<c>>)
        /\ cards # <<>> => cardsAfter = RemoveOne(cards, c)

\* C7: draw() reshuffles if and only if the draw pile is empty when it is
\* called; then exactly one reshuffle happens (the discard pile becomes the
\* draw pile and is emptied), the discard pile is non-empty at that moment,
\* and the draw returns a card.
C7_ReshuffleIffEmpty ==
    [][/\ last'.op = "draw_chance" =>
             DrawContract(chance_cards, chance_discard, chance_cards', chance_discard')
       /\ last'.op = "draw_cc" =>
             DrawContract(cc_cards, cc_discard, cc_cards', cc_discard')]_vars

\* C7 witness: a draw has found the Chance draw pile empty while a player held
\* the deck's escape-jail card, has reshuffled once and has returned a card.
C7_Witness ==
    /\ last.op = "draw_chance"
    /\ last.reshuffles = 1
    /\ Len(last.drawn) = 1
    /\ Held(8) = 1
    /\ Len(chance_cards) = 14

----------------------------------------------------------------------------
(* SpecDriver: the console game loop of monopoly_driver.py with human      *)
(* players. A step is one answer to "What do you want to do?": a cash      *)
(* trade ('p', the turn goes on) or a roll ('r', the turn completes and    *)
(* the loop condition is evaluated).                                       *)

\* answers to "What do you want to do?" per behaviour of SpecDriver
MaxDriverSteps == 3

DriverDice == {4, 5, 12}
DriverCash == {0, 2000}
DriverBalances == {40, 1500}
DriverNames == <<"Ann", "Bob", "Cy">>

count_bankrupt_players(w) ==
    Cardinality({p \in PlayersOf(w) : w.bankruptcy_status[p]})

display_winner_first_listed(w) ==
    0

\* the first player of the list who is not bankrupt; None when all are
display_winner(w) ==
    IF \E p \in PlayersOf(w) : ~w.bankruptcy_status[p]
    THEN CHOOSE p \in PlayersOf(w) :
            /\ ~w.bankruptcy_status[p]
            /\ \A q \in PlayersOf(w) : ~w.bankruptcy_status[q] => p <= q
    ELSE NoPlayer

\* a trade of cash only: both property lists are left empty
trade_with_human(w, p, other_player, cash_given, cash_received) ==
    LET w1 == add_balance(reduce_balance(w, p, cash_given), other_player, cash_given)
    IN  add_balance(reduce_balance(w1, other_player, cash_received), p, cash_received)

\* what the call ai.evaluate_trade(self, computer, ...) can do: return true,
\* return false, or fail on a computer that is None
TradeOutcomes == {"accept", "reject", "AttributeError"}

\* answers: the outcome of each evaluate_trade call in turn; the retry
\* question is answered "y" while answers remain
RECURSIVE trade_with_ai(_, _, _, _)
trade_with_ai(w, p, computer, answers) ==
    LET w1 == [w EXCEPT !.asked = @ + 4]
        w2 == [w1 EXCEPT !.asked = @ + 1]
    IN  CASE Head(answers) = "AttributeError" -> [w1 EXCEPT !.exc = "AttributeError"]
          [] Head(answers) = "accept" ->
                [w1 EXCEPT !.printed = "The AI has accepted your trade offer and the trade has been completed."]
          [] OTHER ->
                IF Len(answers) > 1 THEN trade_with_ai(w2, p, computer, Tail(answers))
                ELSE w2

\* the end of a loop iteration: i += 1, then the while condition
loop_end(w) ==
    LET n == Cardinality(PlayersOf(w))
        w1 == [w EXCEPT !.current_player_index = (@ + 1) % n]
    IN  IF count_bankrupt_players(w1) # n - 1 THEN w1
        ELSE [w1 EXCEPT !.game_over = TRUE, !.winner = display_winner(w1)]

InitDriver ==
    \E n \in 2..3 :
    \E b \in [0..(n - 1) -> DriverBalances] :
        /\ name = [i \in 0..(n - 1) |-> DriverNames[i + 1]]
        /\ balance = b
        /\ cards_owned = [i \in 0..(n - 1) |-> <<>>]
        /\ current_pos = [i \in 0..(n - 1) |-> 0]
        /\ in_jail = [i \in 0..(n - 1) |-> FALSE]
        /\ railroads_owned = [i \in 0..(n - 1) |-> 0]
        /\ doubles_counter = [i \in 0..(n - 1) |-> 0]
        /\ bankruptcy_status = [i \in 0..(n - 1) |-> FALSE]
        /\ get_out_of_jail_cards = [i \in 0..(n - 1) |-> <<>>]
        /\ owner = [s \in Spaces |-> Bank]
        /\ chance_cards = FullChance
        /\ chance_discard = <<>>
        /\ cc_cards = FullCommunityChest
        /\ cc_discard = <<>>
        /\ current_player_index = 0
        /\ game_started = FALSE
        /\ game_over = FALSE
        /\ turn_phase = "waiting_for_roll"
        /\ last_dice_roll = 0
        /\ winner = NoPlayer
        /\ mortgaged_spaces = {}
        /\ callbacks = FALSE
        /\ last = Log("init", NoPlayer, 0, World)
        /\ ops = 0

\* user_choice 'p': player_action returns -1 and the driver asks again
DriverTrade ==
    /\ ~game_over
    /\ ops < MaxDriverSteps
    /\ \E other \in Players, given \in DriverCash, received \in DriverCash :
          /\ given + received > 0
          /\ Apply("driver_trade", current_player_index, other,
                   trade_with_human(World, current_player_index, other, given, received))

\* the Computer variable of the driver: the first player named "AI", or None
Computer == IF \E q \in Players : name[q] = "AI"
            THEN CHOOSE q \in Players : name[q] = "AI" /\ \A r \in Players : name[r] = "AI" => q <= r
            ELSE NoPlayer

\* user_choice 't': player_action calls trade_with_ai(Computer, board)
DriverTradeAi ==
    /\ ~game_over
    /\ ops < MaxDriverSteps
    /\ \E k \in 1..2 : \E answers \in [1..k -> TradeOutcomes] :
          Apply("trade_with_ai", current_player_index,
                [computer |-> Computer, answers |-> answers],
                trade_with_ai(World, current_player_index, Computer, answers))

\* user_choice 'r': roll, move, check_pos(board), next loop iteration
DriverRoll ==
    /\ ~game_over
    /\ ops < MaxDriverSteps
    /\ \E d \in DriverDice, b \in BOOLEAN :
          Apply("driver_roll", current_player_index, d,
                loop_end(check_pos(move_player(World, current_player_index, d),
                                   current_player_index, {},
                                   [NoInput EXCEPT !.buy = b])))

NextDriver ==
    \/ DriverTrade
    \/ DriverTradeAi
    \/ DriverRoll

SpecDriver == InitDriver /\ [][NextDriver]_vars

\* C4: once a turn has completed with all players but one bankrupt, the game
\* is over and the recorded winner is the single player who is not bankrupt.
C4_LastPlayerWins ==
    (last.op = "driver_roll" /\ count_bankrupt_players(World) = Cardinality(Players) - 1)
        => /\ game_over
           /\ winner \in Players
           /\ ~bankruptcy_status[winner]

\* C4 witness: a three-player game has ended with the third player the winner
\* after the first two went bankrupt.
C4_Witness ==
    /\ Cardinality(Players) = 3
    /\ game_over
    /\ winner = 2
    /\ bankruptcy_status[0] /\ bankruptcy_status[1]
    /\ last.op = "driver_roll"

----------------------------------------------------------------------------
(* The GUI engine: GameController (gui/game_controller.py). It has three   *)
(* players and the Chance deck only. Of inp, roll is the total of the      *)
(* mover's dice, rank selects the card a draw returns from the shuffled    *)
(* pile, use_card and pay_bail answer the two jail dialogs; the ai_ fields *)
(* are the same for the AI turn that _end_turn runs.                       *)

\* the card at place k of the pile draw() will pop from
PickCard(w, deck, k) ==
    LET pile == IF Cards(w, deck) = <<>> THEN SortSeq(Discard(w, deck), Less)
                ELSE Cards(w, deck)
    IN  IF pile = <<>> THEN 0 ELSE pile[(k % Len(pile)) + 1]

can_roll_dice(w) ==
    w.game_started /\ ~w.game_over /\ w.turn_phase = "waiting_for_roll"

can_buy_property(w) ==
    LET p == w.current_player_index
        s == w.current_pos[p]
    IN  /\ w.turn_phase = "action_required"
        /\ s \in Spaces
        /\ Purchasable(s)
        /\ w.owner[s] = Bank
        /\ w.balance[p] >= card_cost(s)

check_bankruptcies(w) ==
    Cardinality({p \in PlayersOf(w) : w.bankruptcy_status[p]}) > 0

count_active_players(w) ==
    Cardinality({p \in PlayersOf(w) : ~w.bankruptcy_status[p]})

\* a sink that writes back into the engine: the callbacks, when set, reduce
\* the current player's position modulo the board size
notify_normalises_position(w, n) ==
    IF w.callbacks
    THEN [w EXCEPT !.notified = @ + n,
                   !.current_pos[w.current_player_index] = @ % BoardSize]
    ELSE w

\* n calls of the notification helpers and of the guarded callbacks
\* (if self.on_...: self.on_...(...)): a callback is called when it is set
notify(w, n) ==
    IF w.callbacks THEN [w EXCEPT !.notified = @ + n] ELSE w

end_game(w) ==
    [notify(w, 1) EXCEPT !.game_over = TRUE, !.winner = display_winner(w)]

\* the loop "while self.players[index].bankruptcy_status" of _end_turn
RECURSIVE skip_bankrupt(_, _)
skip_bankrupt(w, idx) ==
    IF w.bankruptcy_status[idx]
    THEN skip_bankrupt(w, (idx + 1) % Cardinality(PlayersOf(w)))
    ELSE idx

\* ai.move (ai/ai.py): roll, move, check_pos with the Chance deck, and buy
\* the space check_pos reports purchasable when the policy decides to
ai_move(w, p, inp) ==
    Strict(move_player(w, p, inp.ai_roll), LAMBDA w1 :
    Strict(check_pos(w1, p, {"chance"},
                     [inp EXCEPT !.card = PickCard(w1, "chance", inp.ai_rank)]),
           LAMBDA w2 :
        IF w2.exc = "none" /\ w2.ret = 1 /\ inp.ai_buy
           /\ w2.balance[p] >= card_cost(w2.current_pos[p])
        THEN purchase_card(w2, w2.current_pos[p], p)
        ELSE w2))

\* ai.leave_jail (ai/ai.py): stay, or leave by bail or by a held card and move
ai_leave_jail(w, p, inp) ==
    LET held == w.get_out_of_jail_cards[p]
        by_card == inp.ai_leave = "card" /\ held # <<>>
        by_bail == ~by_card /\ inp.ai_leave = "bail" /\ w.balance[p] >= BailAmount
    IN  IF ~by_card /\ ~by_bail THEN w
        ELSE ai_move(IF by_card
                     THEN [return_card(w, "chance", held[Len(held)])
                              EXCEPT !.get_out_of_jail_cards[p] =
                                         SubSeq(held, 1, Len(held) - 1),
                                     !.in_jail[p] = FALSE]
                     ELSE [reduce_balance(w, p, BailAmount) EXCEPT !.in_jail[p] = FALSE],
                     p, inp)

RECURSIVE end_turn(_, _)
RECURSIVE process_ai_turn(_, _)

process_ai_turn(w, inp) ==
    Strict(IF w.in_jail[w.current_player_index]
           THEN ai_leave_jail(w, w.current_player_index, inp)
           ELSE ai_move(w, w.current_player_index, inp),
           LAMBDA w1 : IF w1.exc # "none" THEN w1 ELSE end_turn(notify(w1, 1), inp))

end_turn(w, inp) ==
    LET w0 == [w EXCEPT !.ended = Append(@, w.current_player_index)]
    IN  IF check_bankruptcies(w0) THEN w0
        ELSE LET n == Cardinality(PlayersOf(w0))
                 w1 == [w0 EXCEPT !.current_player_index =
                                      skip_bankrupt(w0, (@ + 1) % n),
                                  !.turn_phase = "waiting_for_roll",
                                  !.last_dice_roll = 0]
             IN  IF count_active_players(w1) <= 1 THEN end_game(w1)
                 ELSE IF w1.name[w1.current_player_index] = "AI"
                 THEN process_ai_turn(w1, inp)
                 ELSE notify(w1, 1)

\* every branch but the purchase offer announces the landing as a game
\* event first and ends with self._end_turn()
check_position_gui(w, p, s, inp) ==
    LET nm == card_name(s)
        offer == Purchasable(s) /\ ~mortgaged(s) /\ w.owner[s] = Bank
        w0 == notify(w, 1)
    IN  IF offer THEN [w EXCEPT !.turn_phase = "action_required"]
        ELSE Strict(
               IF ~Purchasable(s)
               THEN CASE nm = "Luxury Tax" ->
                             notify(reduce_balance(w0, p, LuxuryTaxAmount), 1)
                      [] nm = "Income Tax" ->
                             notify(reduce_balance(w0, p, IncomeTaxAmount), 1)
                      [] nm = "Go to Jail" ->
                             notify([send_to_jail(w0, p) EXCEPT !.in_jail[p] = TRUE], 1)
                      [] nm = "Chance" ->
                             draw_and_execute(w0, "chance", p,
                                 [inp EXCEPT !.card = PickCard(w0, "chance", inp.rank)])
                      [] OTHER -> w0
               ELSE IF mortgaged(s) THEN w0
               ELSE IF w.name[w.owner[s]] = w.name[p] THEN w0
               ELSE notify(charge_rent(w0, p, s), 2),
               LAMBDA w1 : IF w1.exc # "none" THEN w1 ELSE end_turn(w1, inp))

\* self.board[player.current_pos] raises IndexError from index 40 on
process_space_landing(w, p, inp) ==
    IF w.current_pos[p] >= BoardSize THEN [w EXCEPT !.exc = "IndexError"]
    ELSE IF w.name[p] = "AI"
    THEN Strict(check_pos(w, p, {"chance"},
                          [inp EXCEPT !.card = PickCard(w, "chance", inp.rank)]),
                LAMBDA w1 :
                    IF w1.exc # "none" THEN w1
                    ELSE IF w1.ret = 1 THEN [w1 EXCEPT !.turn_phase = "action_required"]
                    ELSE end_turn(w1, inp))
    ELSE check_position_gui(w, p, w.current_pos[p], inp)

\* a jail turn whose roll for doubles releases the player on a total that
\* two equal dice can show
handle_jail_turn_doubles_release(w, p, inp) ==
    IF inp.roll % 2 = 0
    THEN end_turn(move_player([w EXCEPT !.in_jail[p] = FALSE], p, inp.roll), inp)
    ELSE end_turn(notify(w, 1), inp)

\* the two releases roll, move and resolve the landing; otherwise the turn ends
handle_jail_turn(w, p, inp) ==
    LET held == w.get_out_of_jail_cards[p]
        by_card == held # <<>> /\ inp.use_card
        by_bail == ~by_card /\ w.balance[p] >= BailAmount /\ inp.pay_bail
    IN  IF ~by_card /\ ~by_bail THEN end_turn(notify(w, 1), inp)
        ELSE Strict(
               move_player(
                   IF by_card
                   THEN [return_card(w, "chance", held[Len(held)])
                            EXCEPT !.get_out_of_jail_cards[p] =
                                       SubSeq(held, 1, Len(held) - 1),
                                   !.in_jail[p] = FALSE]
                   ELSE [reduce_balance(w, p, BailAmount) EXCEPT !.in_jail[p] = FALSE],
                   p, inp.roll),
               LAMBDA w1 : process_space_landing(
                               notify(w1, IF by_card THEN 2 ELSE 3), p, inp))

\* the result {"success": False, ...} of a call that is turned down
failure(w) == [w EXCEPT !.success = FALSE]

roll_dice(w, inp) ==
    IF ~can_roll_dice(w) THEN failure(w)
    ELSE LET p == w.current_player_index
         IN  IF w.in_jail[p] THEN handle_jail_turn(w, p, inp)
             ELSE process_space_landing(
                      notify(move_player([w EXCEPT !.last_dice_roll = inp.roll],
                                         p, inp.roll), 2),
                      p, inp)

buy_property(w, inp) ==
    IF ~can_buy_property(w) THEN failure(w)
    ELSE end_turn(notify(purchase_card(w, w.current_pos[w.current_player_index],
                                       w.current_player_index), 3), inp)

\* a skip that ends the turn in whatever phase it is pressed
skip_purchase_in_any_phase(w, inp) == end_turn(notify(w, 1), inp)

skip_purchase(w, inp) ==
    IF w.turn_phase # "action_required" THEN failure(w) ELSE end_turn(notify(w, 1), inp)

start_game(w) ==
    notify([w EXCEPT !.game_started = TRUE, !.game_over = FALSE,
                     !.current_player_index = 0, !.turn_phase = "waiting_for_roll"], 2)

----------------------------------------------------------------------------
(* Spec: the GUI engine driven by its three buttons (roll, buy, skip).     *)
(* The initial states are the controller as constructed and the mid-game   *)
(* states drawn below.                                                     *)

\* button presses per behaviour of Spec
MaxGuiSteps == 2

GuiDice == {4, 7, 12}
GuiEffectDice == {2, 12}
GuiPositions == {0, 26, 33}
GuiBalances == {40, 1500}
GuiHoldings == {<<>>, <<12, 37>>}
GuiJail == {"free", "jailed", "jailed_card"}
\* places of the shuffled pile a draw takes its card from: with the full
\* pile, one card of each effect kind
Ranks == {0, 3, 5, 6, 7, 8, 9, 10, 14}

InitGui ==
    \E started \in BOOLEAN, q \in GuiPositions, b0 \in GuiBalances, b2 \in GuiBalances,
       own \in GuiHoldings, cur \in 0..1, jl \in GuiJail :
        /\ ~started => (q = 0 /\ b0 = StartBalance /\ b2 = StartBalance
                        /\ own = <<>> /\ cur = 0 /\ jl = "free")
        /\ name = GuiNames
        /\ balance = [i \in 0..2 |-> IF i = 0 THEN b0 ELSE IF i = 2 THEN b2
                                     ELSE StartBalance]
        /\ cards_owned = [i \in 0..2 |-> IF i = 1 THEN own ELSE <<>>]
        /\ current_pos = [i \in 0..2 |-> IF i = cur /\ jl # "free" THEN JailPos ELSE q]
        /\ in_jail = [i \in 0..2 |-> i = cur /\ jl # "free"]
        /\ railroads_owned = [i \in 0..2 |-> 0]
        /\ doubles_counter = [i \in 0..2 |-> 0]
        /\ bankruptcy_status = [i \in 0..2 |-> FALSE]
        /\ get_out_of_jail_cards =
               [i \in 0..2 |-> IF i = cur /\ jl = "jailed_card" THEN <<8>> ELSE <<>>]
        /\ owner = OwnerFrom([i \in 0..2 |-> IF i = 1 THEN own ELSE <<>>])
        /\ chance_cards = IF jl = "jailed_card"
                          THEN SelectSeq(FullChance, LAMBDA c : c # 8) ELSE FullChance
        /\ chance_discard = <<>>
        /\ cc_cards = <<>>
        /\ cc_discard = <<>>
        /\ current_player_index = cur
        /\ game_started = started
        /\ game_over = FALSE
        /\ turn_phase = "waiting_for_roll"
        /\ last_dice_roll = 0
        /\ winner = NoPlayer
        /\ mortgaged_spaces = {}
        /\ callbacks = FALSE
        /\ last = Log("init", NoPlayer, 0, World)
        /\ ops = 0

\* what the AI turn run by _end_turn reads when the AI is next in the list;
\* an input the code cannot reach is held at its default
AiInputs ==
    LET p == current_player_index
        ai == (p + 1) % Cardinality(Players)
        runs == name[ai] = "AI"
    IN  UNION {
          LET landing == (current_pos[ai] + d) % BoardSize
          IN  {[NoInput EXCEPT !.ai_roll = d, !.ai_rank = k, !.ai_buy = b, !.ai_leave = l] :
                  k \in IF card_name(landing) = "Chance" THEN Ranks ELSE {0},
                  b \in IF Purchasable(landing) /\ owner[landing] = Bank
                        THEN BOOLEAN ELSE {FALSE},
                  l \in IF in_jail[ai] THEN {"stay", "bail", "card"} ELSE {"stay"}}
          : d \in IF runs THEN GuiDice ELSE {2} }

\* the inputs of a card drawn with rank k by the player who moves
DrawInputs(a, k) ==
    LET c == CardOf(PickCard(World, "chance", k))
    IN  {[a EXCEPT !.rank = k, !.buy = b, !.dice = e] :
            b \in IF c.effect \in {"advance_to_nearest_railroad",
                                   "advance_to_nearest_utility"}
                  THEN BOOLEAN ELSE {FALSE},
            e \in IF c.effect = "advance_to_nearest_utility" THEN GuiEffectDice ELSE {2}}

\* what a press of the roll button reads
RollInputs ==
    LET p == current_player_index
    IN  UNION {
          LET landing == current_pos[p] + a.roll
          IN  IF landing < BoardSize /\ card_name(landing) = "Chance"
              THEN UNION {DrawInputs(a, k) : k \in Ranks}
              ELSE {a}
          : a \in {[x EXCEPT !.roll = d, !.use_card = use, !.pay_bail = bail] :
                      x \in AiInputs, d \in GuiDice,
                      use \in IF in_jail[p] /\ get_out_of_jail_cards[p] # <<>>
                              THEN BOOLEAN ELSE {FALSE},
                      bail \in IF in_jail[p] /\ balance[p] >= BailAmount
                               THEN BOOLEAN ELSE {FALSE}} }

GStartGame ==
    /\ ~game_started
    /\ ops < MaxGuiSteps
    /\ Apply("start_game", NoPlayer, 0, start_game(World))

GRollDice ==
    /\ can_roll_dice(World)
    /\ ops < MaxGuiSteps
    /\ \E inp \in RollInputs :
          Apply("roll_dice", current_player_index, inp.roll, roll_dice(World, inp))

GBuyProperty ==
    /\ turn_phase = "action_required"
    /\ ops < MaxGuiSteps
    /\ \E a \in AiInputs :
          Apply("buy_property", current_player_index, 0, buy_property(World, a))

GSkipPurchase ==
    /\ turn_phase = "action_required"
    /\ ops < MaxGuiSteps
    /\ \E a \in AiInputs :
          Apply("skip_purchase", current_player_index, 0, skip_purchase(World, a))

Next ==
    \/ GStartGame
    \/ GRollDice
    \/ GBuyProperty
    \/ GSkipPurchase

Spec == InitGui /\ [][Next]_vars

\* the players who are not bankrupt
Active == {p \in Players : ~bankruptcy_status[p]}

\* the first player after p in cyclic list order who is not bankrupt
RECURSIVE NextActive(_)
NextActive(p) ==
    LET q == (p + 1) % Cardinality(Players)
    IN  IF ~bankruptcy_status[q] THEN q ELSE NextActive(q)

\* C5: whenever a turn completes and more than one player is not bankrupt,
\* the current player becomes the next player in cyclic list order who is
\* not bankrupt and the phase is waiting_for_roll, also when a player is
\* already bankrupt.
C5_TurnAdvances ==
    (last.ended # <<>> /\ last.exc = "none" /\ Cardinality(Active) > 1)
        => /\ current_player_index = NextActive(last.ended[Len(last.ended)])
           /\ turn_phase = "waiting_for_roll"

----------------------------------------------------------------------------
(* SpecPurchase: a started GUI game in which nothing is owned yet. Every    *)
(* player stands on space 1, from where each roll of GuiDice reaches a      *)
(* purchasable space (5, 8 or 13), so that one player can buy a space and   *)
(* the next one land on it; or every player stands on Go, from where the    *)
(* rolls reach Income Tax (4), Chance (7) and Electric Company (12), and    *)
(* the first player may be short of cash.                                   *)

\* button presses per behaviour of SpecPurchase
MaxPurchaseSteps == 4

PurchaseStart == 1

InitPurchase ==
    \E cur \in 0..1, q \in {0, PurchaseStart}, b0 \in GuiBalances :
        /\ b0 # StartBalance => (q = 0 /\ cur = 0)
        /\ name = GuiNames
        /\ balance = [i \in 0..2 |-> IF i = 0 THEN b0 ELSE StartBalance]
        /\ cards_owned = [i \in 0..2 |-> <<>>]
        /\ current_pos = [i \in 0..2 |-> q]
        /\ in_jail = [i \in 0..2 |-> FALSE]
        /\ railroads_owned = [i \in 0..2 |-> 0]
        /\ doubles_counter = [i \in 0..2 |-> 0]
        /\ bankruptcy_status = [i \in 0..2 |-> FALSE]
        /\ get_out_of_jail_cards = [i \in 0..2 |-> <<>>]
        /\ owner = [s \in Spaces |-> Bank]
        /\ chance_cards = FullChance
        /\ chance_discard = <<>>
        /\ cc_cards = <<>>
        /\ cc_discard = <<>>
        /\ current_player_index = cur
        /\ game_started = TRUE
        /\ game_over = FALSE
        /\ turn_phase = "waiting_for_roll"
        /\ last_dice_roll = 0
        /\ winner = NoPlayer
        /\ mortgaged_spaces = {}
        /\ callbacks = FALSE
        /\ last = Log("init", NoPlayer, 0, World)
        /\ ops = 0

PRollDice ==
    /\ can_roll_dice(World)
    /\ ops < MaxPurchaseSteps
    /\ \E inp \in RollInputs :
          Apply("roll_dice", current_player_index, inp.roll, roll_dice(World, inp))

PBuyProperty ==
    /\ turn_phase = "action_required"
    /\ ops < MaxPurchaseSteps
    /\ \E a \in AiInputs :
          Apply("buy_property", current_player_index, 0, buy_property(World, a))

PSkipPurchase ==
    /\ turn_phase = "action_required"
    /\ ops < MaxPurchaseSteps
    /\ \E a \in AiInputs :
          Apply("skip_purchase", current_player_index, 0, skip_purchase(World, a))

NextPurchase ==
    \/ PRollDice
    \/ PBuyProperty
    \/ PSkipPurchase

SpecPurchase == InitPurchase /\ [][NextPurchase]_vars

\* the rent of space s at development level 0: 25 for each railroad of the
\* owner o, the first tier of the schedule for the other spaces
BaseRent(s, o) ==
    IF s \in RailroadSpaces THEN 25 * RailroadCount(cards_owned[o])
    ELSE RentTable[s + 1]

\* no player other than p whose turn ended in this step is one of the players
\* in `who` or stands on a space of one of them: the automatic AI turn that
\* follows in the same call neither was theirs nor paid them rent
Undisturbed(p, who) ==
    \A i \in 1..Len(last'.ended) :
        LET q == last'.ended[i]
        IN  q # p => /\ q \notin who
                     /\ owner'[current_pos'[q] % BoardSize] \notin who

\* C12: a successful purchase of a bank-owned space debits the buyer exactly
\* the purchase price and makes the buyer the owner of the space; a different
\* player with sufficient balance who later lands on the space is debited its
\* base-tier rent and the owner is credited the same value.
C12_PurchaseThenRent ==
    [][\A p \in Players :
        /\ (last'.op = "buy_property" /\ last'.p = p /\ can_buy_property(World)
            /\ last'.exc = "none" /\ Undisturbed(p, {p}))
           => /\ balance'[p] = balance[p] - CostTable[current_pos[p] + 1]
              /\ owner'[current_pos[p]] = p
        /\ \A o \in Players \ {p} :
             LET s == current_pos[p] + last'.arg
             IN  (/\ last'.op = "roll_dice" /\ last'.p = p /\ ~in_jail[p]
                  /\ s \in Spaces /\ owner[s] = o
                  /\ balance[p] >= BaseRent(s, o)
                  /\ last'.exc = "none" /\ Undisturbed(p, {p, o}))
                 => /\ balance'[p] = balance[p] - BaseRent(s, o)
                    /\ balance'[o] = balance[o] + BaseRent(s, o)]_vars

\* The purchase half of C12.
C12_PurchaseDebitsPrice ==
    [][\A p \in Players :
          (last'.op = "buy_property" /\ last'.p = p /\ can_buy_property(World)
           /\ last'.exc = "none" /\ Undisturbed(p, {p}))
          => /\ balance'[p] = balance[p] - CostTable[current_pos[p] + 1]
             /\ owner'[current_pos[p]] = p]_vars

\* C12 witness: Player 2 has bought Reading Railroad (space 5, price 200) and
\* Player 1 has then landed on it and paid the rent of 25 to Player 2.
C12_Witness ==
    /\ last.op = "roll_dice"
    /\ last.p = 0
    /\ current_pos[0] = 5
    /\ owner[5] = 1
    /\ cards_owned[1] = <<5>>
    /\ balance[1] = StartBalance - 200 + 25
    /\ balance[0] = StartBalance - 25
    /\ current_player_index = 1

----------------------------------------------------------------------------
(* SpecMortgage: one landing in a game where Player 2 owns Reading         *)
(* Railroad (5), Electric Company (12) and Illinois Avenue (24) and some   *)
(* of them are mortgaged: a dice move resolved by check_pos, a press of    *)
(* the roll button, a position-changing card, or a debit of one player.    *)

MortgageHoldings == <<5, 12, 24>>
MortgagePositions == {1, 7}
MortgageDice == {4, 5, 11}
LandingEffects ==
    {"advance_to_nearest_railroad", "advance_to_nearest_utility",
     "move_to_position", "move_relative"}
\* debits around the worth of the holdings: 590 unmortgaged, 295 mortgaged
MortgageDebits == {50, 300, 301, 400, 595, 596}

InitMortgage ==
    \E q \in MortgagePositions, b0 \in {40, StartBalance}, b1 \in {5, StartBalance},
       m \in (SUBSET SeqToSet(MortgageHoldings)) \ {{}} :
        /\ name = GuiNames
        /\ balance = [i \in 0..2 |-> IF i = 0 THEN b0 ELSE IF i = 1 THEN b1
                                                          ELSE StartBalance]
        /\ cards_owned = [i \in 0..2 |-> IF i = 1 THEN MortgageHoldings ELSE <<>>]
        /\ current_pos = [i \in 0..2 |-> q]
        /\ in_jail = [i \in 0..2 |-> FALSE]
        /\ railroads_owned = [i \in 0..2 |-> IF i = 1 THEN 1 ELSE 0]
        /\ doubles_counter = [i \in 0..2 |-> 0]
        /\ bankruptcy_status = [i \in 0..2 |-> FALSE]
        /\ get_out_of_jail_cards = [i \in 0..2 |-> <<>>]
        /\ owner = OwnerFrom(cards_owned)
        /\ mortgaged_spaces = m
        /\ callbacks = FALSE
        /\ chance_cards = FullChance
        /\ chance_discard = <<>>
        /\ cc_cards = FullCommunityChest
        /\ cc_discard = <<>>
        /\ current_player_index = 0
        /\ game_started = TRUE
        /\ game_over = FALSE
        /\ turn_phase = "waiting_for_roll"
        /\ last_dice_roll = 0
        /\ winner = NoPlayer
        /\ last = Log("init", NoPlayer, 0, World)
        /\ ops = 0

\* a dice move of the console game: move_player, then check_pos
KLand ==
    /\ ops = 0
    /\ \E p \in Players, d \in MortgageDice, b \in BOOLEAN :
          Apply("land", p, d,
                check_pos(move_player(World, p, d), p, {},
                          [NoInput EXCEPT !.buy = b]))

\* a press of the roll button by the first player
KRollDice ==
    /\ ops = 0
    /\ \E inp \in RollInputs :
          Apply("roll_dice", current_player_index, inp.roll, roll_dice(World, inp))

\* a position-changing card of the catalogs
KExecute ==
    /\ ops = 0
    /\ \E p \in Players, i \in CardIds :
          /\ CardOf(i).effect \in LandingEffects
          /\ \E inp \in InputsOf(CardOf(i)) :
                Apply(CardOf(i).effect, p, i, execute(World, CardOf(i), p, <<>>, inp))

\* a debit: Player.reduce_balance
KReduceBalance ==
    /\ ops = 0
    /\ \E p \in Players, amount \in MortgageDebits :
          Apply("reduce_balance", p, amount, reduce_balance(World, p, amount))

NextMortgage ==
    \/ KLand
    \/ KRollDice
    \/ KExecute
    \/ KReduceBalance

SpecMortgage == InitMortgage /\ [][NextMortgage]_vars

\* the step left every balance as it was, but for the pass-start bonus of p
NoRentStep(p) ==
    /\ \A q \in Players \ {p} : balance'[q] = balance[q]
    /\ balance'[p] \in {balance[p], balance[p] + 200}

\* C13: no landing on a mortgaged space charges rent, whether the landing
\* follows a dice move or is caused by a card (advance to nearest railroad or
\* utility, move_to_position, move_relative): no balance changes, but for the
\* pass-start bonus of the moving player.
C13_NoRentOnMortgaged ==
    [][\A p \in Players :
          (last'.p = p /\ mortgaged(current_pos'[p] % BoardSize)) => NoRentStep(p)]_vars

\* the dice half of C13: landing resolution after a dice move, by check_pos
\* and by the roll button, charges no rent on a mortgaged space
C13_DiceLandingNoRent ==
    [][\A p \in Players :
          (last'.p = p /\ last'.op \in {"land", "roll_dice"}
           /\ mortgaged(current_pos'[p] % BoardSize)) => NoRentStep(p)]_vars

----------------------------------------------------------------------------
(* Keepable cards in the GUI game, checked under Spec *)

\* the keepable cards of the Chance deck, the only deck of the GUI game
KeepableChance == {x \in ChanceIds : CardOf(x).keepable}

HeldBy(p, x) == x \in SeqToSet(get_out_of_jail_cards[p])

\* C14: draw() never appends a keepable card to the discard pile: once such a
\* card is drawn and its effect dispatched it is held by the player who drew
\* it, and it enters the discard pile only through return_card, which takes
\* it from the hand of a jailed player who uses it.
C14_KeepableNeverDiscardedByDraw ==
    [][\A x \in KeepableChance :
        /\ (x \in SeqToSet(last'.drawn) /\ last'.exc = "none")
           => /\ Occ(chance_discard', x) = 0
              /\ \E p \in SeqToSet(last'.ended) : ~HeldBy(p, x) /\ HeldBy(p, x)'
        /\ Occ(chance_discard', x) > Occ(chance_discard, x)
           => /\ x \notin SeqToSet(last'.drawn)
              /\ \E p \in Players : in_jail[p] /\ HeldBy(p, x) /\ ~HeldBy(p, x)']_vars

\* C14 witness: the first player has landed on Chance, drawn the escape-jail
\* card and holds it; the card is in neither pile.
C14_Witness ==
    /\ last.op = "roll_dice"
    /\ last.p = 0
    /\ last.drawn = <<8>>
    /\ get_out_of_jail_cards[0] = <<8>>
    /\ Occ(chance_discard, 8) = 0
    /\ Occ(chance_cards, 8) = 0

\* a jailed player has used the escape-jail card: return_card has put it on
\* the discard pile
C14_ReturnedWitness ==
    /\ last.op = "roll_dice"
    /\ last.pre_pos[last.p] = JailPos
    /\ get_out_of_jail_cards[last.p] = <<>>
    /\ Occ(chance_discard, 8) = 1
    /\ last.drawn = <<>>

----------------------------------------------------------------------------
(* SpecDice: one dice move of the first player from every board position   *)
(* with every total of two dice, in a game where the bank owns every space *)
(* but possibly the first one: a press of the roll button (regular roll,   *)
(* or the jail sub-flow from the jail index), a roll of the console game,  *)
(* or a jailed player's call of release_from_jail. The jailed player may   *)
(* be short of cash, with or without a property to their name.             *)

InitDice ==
    \E q \in Spaces, jl \in GuiJail, b0 \in GuiBalances, own0 \in {<<>>, <<1>>} :
        /\ jl # "free" => q = JailPos
        /\ b0 # StartBalance => jl # "free"
        /\ own0 # <<>> => b0 # StartBalance
        /\ name = GuiNames
        /\ balance = [i \in 0..2 |-> IF i = 0 THEN b0 ELSE StartBalance]
        /\ cards_owned = [i \in 0..2 |-> IF i = 0 THEN own0 ELSE <<>>]
        /\ current_pos = [i \in 0..2 |-> IF i = 0 THEN q ELSE 0]
        /\ in_jail = [i \in 0..2 |-> i = 0 /\ jl # "free"]
        /\ railroads_owned = [i \in 0..2 |-> 0]
        /\ doubles_counter = [i \in 0..2 |-> 0]
        /\ bankruptcy_status = [i \in 0..2 |-> FALSE]
        /\ get_out_of_jail_cards =
               [i \in 0..2 |-> IF i = 0 /\ jl = "jailed_card" THEN <<8>> ELSE <<>>]
        /\ owner = [s \in Spaces |-> IF s \in SeqToSet(own0) THEN 0 ELSE Bank]
        /\ chance_cards = IF jl = "jailed_card"
                          THEN SelectSeq(FullChance, LAMBDA c : c # 8) ELSE FullChance
        /\ chance_discard = <<>>
        /\ cc_cards = <<>>
        /\ cc_discard = <<>>
        /\ current_player_index = 0
        /\ game_started = TRUE
        /\ game_over = FALSE
        /\ turn_phase = "waiting_for_roll"
        /\ last_dice_roll = 0
        /\ winner = NoPlayer
        /\ mortgaged_spaces = {}
        /\ callbacks = FALSE
        /\ last = Log("init", NoPlayer, 0, World)
        /\ ops = 0

\* a press of the roll button
XRollDice ==
    /\ ops = 0
    /\ \E d \in DiceTotals, k \in Ranks, use \in BOOLEAN, bail \in BOOLEAN :
          Apply("roll_dice", current_player_index, d,
                roll_dice(World, [NoInput EXCEPT !.roll = d, !.rank = k,
                                                 !.use_card = use, !.pay_bail = bail]))

\* a roll of the console game: move_player, check_pos(board), next iteration
XDriverRoll ==
    /\ ops = 0
    /\ \E d \in DiceTotals, b \in BOOLEAN :
          Apply("driver_roll", current_player_index, d,
                loop_end(check_pos(move_player(World, current_player_index, d),
                                   current_player_index, {},
                                   [NoInput EXCEPT !.buy = b])))

\* a jailed player's call of Player.release_from_jail
XReleaseFromJail ==
    /\ ops = 0
    /\ in_jail[current_player_index]
    /\ \E d \in DiceTotals, use \in BOOLEAN, bail \in BOOLEAN :
          Apply("release_from_jail", current_player_index, d,
                release_from_jail(World, current_player_index,
                    [NoInput EXCEPT !.dice = d, !.use_card = use, !.pay_bail = bail]))

NextDice ==
    \/ XRollDice
    \/ XDriverRoll
    \/ XReleaseFromJail

SpecDice == InitDice /\ [][NextDice]_vars

\* the spaces where landing resolution moves no money by itself
QuietSpaces == {s \in Spaces : card_name(s) \notin {"Income Tax", "Luxury Tax", "Chance"}}

\* C17: whenever a normal dice move passes or lands on index 0 (old position
\* plus dice total is 40 or more), the mover is credited the 200 pass-start
\* bonus exactly once in that move. Compared on the landings that move no
\* other money: no tax, no card, and nothing bought.
C17_DiceMovePassesStart ==
    [][\A p \in Players :
          (/\ last'.op \in {"roll_dice", "driver_roll"} /\ last'.p = p
           /\ ~in_jail[p]
           /\ current_pos[p] + last'.arg >= BoardSize
           /\ (current_pos[p] + last'.arg) % BoardSize \in QuietSpaces
           /\ owner' = owner)
          => balance'[p] = balance[p] + 200]_vars

\* C18: after a dice move from any position with any total 2..12, in the
\* regular roll path and in the jail-release paths, the position is reduced
\* modulo 40 before the board is indexed: no lookup fails and every position
\* is in 0..39.
C18_BoardIndexInRange ==
    last.op \in {"roll_dice", "driver_roll"}
    => /\ last.exc # "IndexError"
       /\ \A p \in Players : current_pos[p] \in Spaces

----------------------------------------------------------------------------
(* The purchase decision, checked under SpecPurchase *)

\* C19: while the engine is in the action_required phase the current player
\* does not change and no dice roll is accepted; the engine leaves the phase
\* only by a successful buy_property or by a skip_purchase, and each of the
\* two ends the turn, leaving the phase.
C19_ActionRequiredPause ==
    [][turn_phase = "action_required"
       => /\ last'.op \in {"buy_property", "skip_purchase"}
          /\ turn_phase' = "action_required"
             => /\ current_player_index' = current_player_index
                /\ last'.op = "buy_property"
                /\ ~can_buy_property(World)
          /\ (last'.op = "skip_purchase" \/ can_buy_property(World))
             => /\ last'.ended # <<>>
                /\ turn_phase' # "action_required"]_vars

\* The same property restricted to steps taken while no player is bankrupt
\* (_end_turn returns before advancing when _check_bankruptcies finds one).
C19_PauseWhileSolvent ==
    [][(turn_phase = "action_required" /\ \A q \in Players : ~bankruptcy_status[q])
       => /\ last'.op \in {"buy_property", "skip_purchase"}
          /\ turn_phase' = "action_required"
             => /\ current_player_index' = current_player_index
                /\ last'.op = "buy_property"
                /\ ~can_buy_property(World)
          /\ (last'.op = "skip_purchase" \/ can_buy_property(World))
             => /\ last'.ended # <<>>
                /\ turn_phase' # "action_required"]_vars

----------------------------------------------------------------------------
(* The jail sub-flow, checked under SpecDice *)

\* what the jail sub-flow owes a jailed player p in a step of one of the
\* operations jailOps: a held card that is used costs nothing; a release
\* moves the player by the dice total and resolves the landing (a card is
\* drawn on Chance; elsewhere the player stands on the space reached), and a
\* release without the card costs the bail and nothing else where landing
\* moves no money; a player who stays in jail neither moves nor pays.
JailTurnContract(jailOps, p) ==
    (last'.op \in jailOps /\ last'.p = p /\ in_jail[p])
    => LET dest == JailPos + last'.arg
           by_card == Len(get_out_of_jail_cards'[p]) < Len(get_out_of_jail_cards[p])
       IN  /\ ~in_jail'[p]
              => /\ card_name(dest) = "Chance" => last'.drawn # <<>>
                 /\ card_name(dest) # "Chance" => current_pos'[p] = dest
                 /\ dest \in QuietSpaces
                    => balance'[p] = balance[p] - (IF by_card THEN 0 ELSE BailAmount)
           /\ (in_jail'[p] /\ card_name(dest) # "Chance")
              => /\ ~by_card
                 /\ current_pos'[p] = current_pos[p]
                 /\ balance'[p] = balance[p]

\* C20: for a jailed current player the jail sub-flow tries a held escape
\* card, then a bail payment of 50, then the roll for doubles; every release
\* clears the jail flag and is followed in the same turn by a dice move and
\* landing resolution, and a bail release debits exactly 50. Stated for both
\* jail sub-flows of the program.
C20_JailSubFlow ==
    [][\A p \in Players : JailTurnContract({"roll_dice", "release_from_jail"}, p)]_vars

\* The same contract for the jail sub-flow of the GUI engine alone.
C20_GuiJailTurn ==
    [][\A p \in Players : JailTurnContract({"roll_dice"}, p)]_vars

----------------------------------------------------------------------------
(* Bankrupt players, checked under Spec *)

\* C21: once a player's bankruptcy flag is set it is never cleared, and from
\* then on the player is inert: the balance stays 0, the player acquires no
\* property, and no turn is played with that player as the current player.
C21_BankruptInert ==
    [][\A p \in Players :
          bankruptcy_status[p]
          => /\ bankruptcy_status'[p]
             /\ balance'[p] = 0
             /\ SeqToSet(cards_owned'[p]) \subseteq SeqToSet(cards_owned[p])
             /\ last'.p # p]_vars

\* The part of C21 that concerns the flag alone.
C21_FlagNeverCleared ==
    [][\A p \in Players : bankruptcy_status[p] => bankruptcy_status'[p]]_vars

----------------------------------------------------------------------------
(* SpecSink: the GUI engine of Spec with a presentation layer that may set  *)
(* the callbacks before the first button is pressed. The initial states are *)
(* those of Spec in which the first player is to move and the AI player has *)
(* the starting balance.                                                    *)

InitSink ==
    /\ InitGui
    /\ current_player_index = 0
    /\ balance[2] = StartBalance

\* GameController.set_callbacks: every variable but `callbacks` is left alone
SSetCallbacks ==
    /\ ops = 0
    /\ \E cb \in BOOLEAN : cb # callbacks /\ callbacks' = cb
    /\ UNCHANGED <<name, balance, cards_owned, current_pos, in_jail, railroads_owned,
                   doubles_counter, bankruptcy_status, get_out_of_jail_cards, owner,
                   mortgaged_spaces, chance_cards, chance_discard, cc_cards,
                   cc_discard, current_player_index, game_started, game_over,
                   turn_phase, last_dice_roll, winner, last, ops>>

NextSink ==
    \/ SSetCallbacks
    \/ GStartGame
    \/ GRollDice
    \/ GBuyProperty
    \/ GSkipPurchase

SpecSink == InitSink /\ [][NextSink]_vars

\* the player, board, deck and turn-phase state of a world: everything but
\* the callbacks and the count of the calls made to them
Engine(w) == [w EXCEPT !.callbacks = FALSE, !.notified = 0]

----------------------------------------------------------------------------
(* Rent of color properties, checked under SpecLedger *)

\* the step charges player p, who can pay it, the rent `amt` of the color
\* property s another player owns, and credits the owner with it
ColorRentCharged(p, s, amt) ==
    (/\ last'.op \in {"charge_rent", "check_pos"} /\ last'.p = p
     /\ s \in Spaces /\ color_group(s) = "Color"
     /\ owner[s] \notin {Bank, p} /\ ~mortgaged(s)
     /\ balance[p] >= amt)
    => /\ balance'[p] = balance[p] - amt
       /\ balance'[owner[s]] = balance[owner[s]] + amt

\* C23: a player who lands on a standard color property owned by another
\* player is charged the rent-schedule value at the property's current
\* development level (level 0, no houses, gives the base-tier value).
C23_ColorRentByLevel ==
    [][\A p \in Players :
          ColorRentCharged(p, last'.arg, rent_prices(last'.arg)[houses_built(last'.arg)])]_vars

\* What charge_rent does instead: the schedule is read at the fixed key 1.
C23_ColorRentFixedKey ==
    [][\A p \in Players :
          ColorRentCharged(p, last'.arg, rent_prices(last'.arg)[1])]_vars

----------------------------------------------------------------------------
(* The insolvency check, checked under SpecMortgage *)

\* what player p could raise: the balance plus, for every owned property, its
\* price, less the mortgage amount when it is mortgaged
Liquidatable(p) ==
    balance[p]
    + SumSeq([i \in 1..Len(cards_owned[p]) |-> CostTable[cards_owned[p][i] + 1]])
    - SumSeq([i \in 1..Len(cards_owned[p]) |->
                 IF cards_owned[p][i] \in mortgaged_spaces
                 THEN CostTable[cards_owned[p][i] + 1] \div 2 ELSE 0])

\* C24: a debit declares the player bankrupt exactly when the balance plus
\* the sum over the owned properties of the price (less the mortgage amount
\* when mortgaged) is less than the amount owed; the check runs before any
\* deduction: a player declared bankrupt goes from the old balance to 0 with
\* nothing deducted in between, and otherwise the amount is deducted whole or
\* not at all.
C24_InsolvencyCheck ==
    [][\A p \in Players :
          (last'.op = "reduce_balance" /\ last'.p = p /\ ~bankruptcy_status[p])
          => /\ bankruptcy_status'[p] <=> Liquidatable(p) < last'.arg
             /\ bankruptcy_status'[p] => balance'[p] = 0
             /\ ~bankruptcy_status'[p]
                => balance'[p] \in {balance[p], balance[p] - last'.arg}
             /\ balance'[p] >= 0]_vars

\* C24 witness: Player 2, with balance 5 and all three holdings mortgaged
\* (worth 300 together with the balance), has been declared bankrupt by a
\* debit of 301.
C24_Witness ==
    /\ last.op = "reduce_balance"
    /\ last.p = 1
    /\ last.arg = 301
    /\ last.pre_balance[1] = 5
    /\ mortgaged_spaces = {5, 12, 24}
    /\ bankruptcy_status[1]
    /\ balance[1] = 0

\* C24, the other side of the threshold: a debit of 300 leaves the same
\* player solvent.
C24_SolventWitness ==
    /\ last.op = "reduce_balance"
    /\ last.p = 1
    /\ last.arg = 300
    /\ last.pre_balance[1] = 5
    /\ mortgaged_spaces = {5, 12, 24}
    /\ ~bankruptcy_status[1]

----------------------------------------------------------------------------
(* SpecSetup: get_player_info (game/initialization.py) run on a bounded     *)
(* sequence of console entries. An entry is the string typed at one prompt. *)

\* entries typed per run of get_player_info
MaxEntries == 5

SetupEntries == {"0", "abc", "1", "2", "yes", "no", "YES"}

\* int(entry) succeeds
is_int(e) == e \in {"0", "1", "2"}
\* the value of int(entry)
int(e) == CASE e = "1" -> 1 [] e = "2" -> 2 [] OTHER -> 0
\* an answer compared as typed, without lower()
lower_keeps_case(e) == e
\* entry.lower()
lower(e) == IF e = "YES" THEN "yes" ELSE e

\* the first loop: the place of the first entry from place i on that is an
\* integer greater than 0; 0 when the entries run out
RECURSIVE ask_count(_, _)
ask_count(es, i) ==
    IF i > Len(es) THEN 0
    ELSE IF is_int(es[i]) /\ int(es[i]) > 0 THEN i
    ELSE ask_count(es, i + 1)

\* the second loop: the place of the first entry from place i on that is yes
\* or no in lower case; 0 when the entries run out
RECURSIVE ask_include_ai(_, _)
ask_include_ai(es, i) ==
    IF i > Len(es) THEN 0
    ELSE IF lower(es[i]) \in {"yes", "no"} THEN i
    ELSE ask_include_ai(es, i + 1)

\* the list of Player objects built for the names, in order
new_players(w, names) ==
    LET idx == 0..(Len(names) - 1)
    IN  [w EXCEPT !.name = [k \in idx |-> names[k + 1]],
                  !.balance = [k \in idx |-> StartBalance],
                  !.cards_owned = [k \in idx |-> <<>>],
                  !.current_pos = [k \in idx |-> 0],
                  !.in_jail = [k \in idx |-> FALSE],
                  !.railroads_owned = [k \in idx |-> 0],
                  !.doubles_counter = [k \in idx |-> 0],
                  !.bankruptcy_status = [k \in idx |-> FALSE],
                  !.get_out_of_jail_cards = [k \in idx |-> <<>>]]

\* input() with no entry left ends the run with an exception
get_player_info(w, es) ==
    LET i == ask_count(es, 1)
        n == int(es[i])
        j == ask_include_ai(es, i + n + 1)
    IN  IF i = 0 \/ i + n > Len(es) \/ j = 0 THEN [w EXCEPT !.exc = "StopIteration"]
        ELSE new_players(w, SubSeq(es, i + 1, i + n)
                            \o (IF lower(es[j]) = "yes" THEN <<"AI">> ELSE <<>>))

InitSetup ==
    /\ name = <<>>
    /\ balance = <<>>
    /\ cards_owned = <<>>
    /\ current_pos = <<>>
    /\ in_jail = <<>>
    /\ railroads_owned = <<>>
    /\ doubles_counter = <<>>
    /\ bankruptcy_status = <<>>
    /\ get_out_of_jail_cards = <<>>
    /\ owner = [s \in Spaces |-> Bank]
    /\ mortgaged_spaces = {}
    /\ callbacks = FALSE
    /\ chance_cards = FullChance
    /\ chance_discard = <<>>
    /\ cc_cards = FullCommunityChest
    /\ cc_discard = <<>>
    /\ current_player_index = 0
    /\ game_started = FALSE
    /\ game_over = FALSE
    /\ turn_phase = "waiting_for_roll"
    /\ last_dice_roll = 0
    /\ winner = NoPlayer
    /\ last = Log("init", NoPlayer, <<>>, World)
    /\ ops = 0

SGetPlayerInfo ==
    /\ ops = 0
    /\ \E k \in 0..MaxEntries :
          \E es \in [1..k -> SetupEntries] :
              Apply("get_player_info", NoPlayer, es, get_player_info(World, es))

SpecSetup == InitSetup /\ [][SGetPlayerInfo]_vars

\* the place of the first entry of es, from place i on, that is in the set ok
FirstPlace(es, i, ok) ==
    CHOOSE k \in i..Len(es) : es[k] \in ok /\ \A m \in i..(k - 1) : es[m] \notin ok

\* C25: get_player_info returns, for the first valid player count n > 0 and
\* the first valid yes/no answer entered, exactly n human players in entry
\* order plus one player named "AI" when the answer is yes; every returned
\* player has balance 1500, position 0, is not in jail and is not bankrupt;
\* entries that are not an integer greater than 0, or not yes/no, are
\* re-prompted and create no player.
C25_GetPlayerInfo ==
    (last.op = "get_player_info" /\ last.exc = "none")
    => LET es == last.arg
           i == FirstPlace(es, 1, {"1", "2"})
           n == IF es[i] = "1" THEN 1 ELSE 2
           j == FirstPlace(es, i + n + 1, {"yes", "no", "YES"})
           ai == IF es[j] = "no" THEN 0 ELSE 1
       IN  /\ Players = 0..(n + ai - 1)
           /\ \A k \in 0..(n - 1) : name[k] = es[i + 1 + k]
           /\ ai = 1 => name[n] = "AI"
           /\ \A p \in Players :
                 /\ balance[p] = 1500
                 /\ current_pos[p] = 0
                 /\ ~in_jail[p]
                 /\ ~bankruptcy_status[p]

\* C25 witness: "0" and "abc" were re-prompted, the count 2 was accepted, the
\* two names were taken in order and the answer yes added the AI player.
C25_Witness ==
    /\ last.op = "get_player_info"
    /\ last.exc = "none"
    /\ Len(last.arg) = 5
    /\ last.arg[1] = "0"
    /\ last.arg[2] = "2"
    /\ name = [k \in 0..2 |-> IF k = 2 THEN "AI" ELSE last.arg[k + 3]]
    /\ last.arg[5] = "YES"

\* C25: an answer that is not yes or no is asked again.
C25_RepromptWitness ==
    /\ last.op = "get_player_info"
    /\ last.exc = "none"
    /\ Len(last.arg) = 5
    /\ last.arg[1] = "abc"
    /\ last.arg[2] = "1"
    /\ last.arg[4] = "abc"
    /\ last.arg[5] = "no"
    /\ Players = {0}

----------------------------------------------------------------------------
(* Trading with the AI when the game has no AI player *)

\* C26: trade_with_ai called when no AI player is in the game (computer is
\* None) asks for no trade input, changes no player's balance or properties,
\* and reports that there is no AI player in the game to trade with.
C26_NoAiTrade ==
    [][(last'.op = "trade_with_ai" /\ last'.arg.computer = NoPlayer)
       => /\ last'.asked = 0
          /\ balance' = balance
          /\ cards_owned' = cards_owned
          /\ owner' = owner
          /\ last'.printed = "There is no AI player in the game to trade with."]_vars

\* C26: with no AI player the trade still asks for the four trade entries
\* before it calls the AI.
C26_AsksAnyway ==
    [][(last'.op = "trade_with_ai" /\ last'.arg.computer = NoPlayer)
       => last'.asked >= 4]_vars

----------------------------------------------------------------------------
(* SpecNearest: the two advance-to-nearest effects from every board index *)

\* advance-to-nearest cards played in one run
MaxNearestOps == 2

NearestDice == {2, 7, 12}
NearestHoldings == {<<>>, <<5, 12>>, <<5, 15, 25, 35, 12, 28>>}
\* the prices of a utility and of a railroad, and amounts around them
NearestAiBalances == {0, 150, 151, 200, 201, StartBalance}

InitNearest ==
    \E q \in Spaces, b0 \in {50, StartBalance}, h1 \in NearestHoldings,
       h0 \in {<<>>, <<25, 28>>}, who \in {0, 2}, b2 \in NearestAiBalances :
        /\ h0 # <<>> => Len(h1) <= 2
        /\ who = 2 => (b0 = StartBalance /\ h0 = <<>>)
        /\ who = 0 => b2 = StartBalance
        /\ name = GuiNames
        /\ balance = [i \in 0..2 |-> IF i = 0 THEN b0 ELSE IF i = 2 THEN b2 ELSE StartBalance]
        /\ cards_owned = [i \in 0..2 |-> IF i = 0 THEN h0 ELSE IF i = 1 THEN h1 ELSE <<>>]
        /\ current_pos = [i \in 0..2 |-> IF i = who THEN q ELSE 0]
        /\ current_player_index = who
        /\ in_jail = [i \in 0..2 |-> FALSE]
        /\ railroads_owned = [i \in 0..2 |-> RailroadCount(cards_owned[i])]
        /\ doubles_counter = [i \in 0..2 |-> 0]
        /\ bankruptcy_status = [i \in 0..2 |-> FALSE]
        /\ get_out_of_jail_cards = [i \in 0..2 |-> <<>>]
        /\ owner = OwnerFrom(cards_owned)
        /\ chance_cards = FullChance
        /\ chance_discard = <<>>
        /\ cc_cards = FullCommunityChest
        /\ cc_discard = <<>>
        /\ game_started = FALSE
        /\ game_over = FALSE
        /\ turn_phase = "waiting_for_roll"
        /\ last_dice_roll = 0
        /\ winner = NoPlayer
        /\ mortgaged_spaces = {}
        /\ callbacks = FALSE
        /\ last = Log("init", NoPlayer, NoInput, World)
        /\ ops = 0

NAdvanceRailroad ==
    /\ ops < MaxNearestOps
    /\ ~bankruptcy_status[current_player_index]
    /\ \E b \in BOOLEAN :
          Apply("advance_to_nearest_railroad", current_player_index, [NoInput EXCEPT !.buy = b],
                handle_advance_to_nearest_railroad(World, MoveCard("advance_to_nearest_railroad", 0),
                                                   current_player_index, <<>>,
                                                   [NoInput EXCEPT !.buy = b]))

NAdvanceUtility ==
    /\ ops < MaxNearestOps
    /\ ~bankruptcy_status[current_player_index]
    /\ \E b \in BOOLEAN, d \in NearestDice :
          Apply("advance_to_nearest_utility", current_player_index,
                [NoInput EXCEPT !.buy = b, !.dice = d],
                handle_advance_to_nearest_utility(World, MoveCard("advance_to_nearest_utility", 0),
                                                  current_player_index, <<>>,
                                                  [NoInput EXCEPT !.buy = b, !.dice = d]))

NextNearest ==
    \/ NAdvanceRailroad
    \/ NAdvanceUtility

SpecNearest == InitNearest /\ [][NextNearest]_vars

\* the least target strictly ahead of pos, or the least target when none is
NearestAhead(targets, pos) ==
    LET ahead == {t \in targets : t > pos}
        from == IF ahead = {} THEN targets ELSE ahead
    IN  CHOOSE t \in from : \A u \in from : t <= u

Wraps(targets, pos) == \A t \in targets : t <= pos

\* the player moved to the nearest target; the balance grew by 200 exactly on
\* a wrap, apart from a rent the player could cover (rent maps each owner to
\* the rent due) and apart from a purchase (accepted by a human player, or
\* decided by the AI player)
NearestContract(p, targets, rent) ==
    LET target == NearestAhead(targets, current_pos[p])
        bonus == IF Wraps(targets, current_pos[p]) THEN 200 ELSE 0
    IN  current_pos[p] \in 0..39
        => /\ current_pos'[p] = target
           /\ (owner[target] = p \/ (owner[target] = Bank /\ ~last'.arg.buy /\ name[p] # "AI"))
              => balance'[p] = balance[p] + bonus
           /\ (owner[target] \notin {p, Bank} /\ balance[p] + bonus >= rent[owner[target]])
              => balance'[p] = balance[p] + bonus - rent[owner[target]]

\* C27: for every starting position 0..39, the advance_to_nearest_railroad
\* effect moves the player to the first of 5, 15, 25, 35 that is strictly
\* greater than the current position, or to 5 when none is, and the
\* advance_to_nearest_utility effect does the same over 12, 28; the 200
\* pass-start bonus is credited exactly when the wrap to the first target
\* occurs.
C27_NearestTarget ==
    [][\A p \in Players :
          /\ (last'.op = "advance_to_nearest_railroad" /\ last'.p = p)
             => NearestContract(p, {5, 15, 25, 35},
                                [o \in Players |-> 50 * railroads_owned[o]])
          /\ (last'.op = "advance_to_nearest_utility" /\ last'.p = p)
             => NearestContract(p, {12, 28},
                                [o \in Players |-> 10 * last'.arg.dice])]_vars

\* C27 witness: from the last railroad the card wrapped to index 5 and the
\* player, who declined the purchase, was credited the 200.
C27_Witness ==
    /\ last.op = "advance_to_nearest_railroad"
    /\ last.pre_pos[0] = 35
    /\ current_pos[0] = 5
    /\ ~last.arg.buy
    /\ owner[5] = Bank
    /\ balance[0] = last.pre_balance[0] + 200

\* C27: from index 12 the utility card moved on to index 28 without a bonus.
C27_UtilityWitness ==
    /\ last.op = "advance_to_nearest_utility"
    /\ last.pre_pos[0] = 12
    /\ current_pos[0] = 28
    /\ owner[28] = 0
    /\ balance[0] = last.pre_balance[0]

----------------------------------------------------------------------------
(* Landing on the 'Go to Jail' space *)

GoToJailSpace == CHOOSE s \in Spaces : card_name(s) = "Go to Jail"

\* a dice move by one of the operations in rolls took p, who was not in jail,
\* onto the 'Go to Jail' space, and p is now at the jail index with the
\* jail flag set
JailedByLanding(rolls, p) ==
    (/\ last'.op \in rolls
     /\ last'.p = p
     /\ last'.exc = "none"
     /\ ~in_jail[p]
     /\ current_pos[p] + last'.arg = GoToJailSpace)
    => /\ current_pos'[p] = JailPos
       /\ in_jail'[p]

\* C28: landing resolution of the 'Go to Jail' space leaves the player at
\* index 10 with the jail flag set, in every path that performs landing
\* resolution (the console/AI check_pos path and the GUI controller path), so
\* that the player's next turn enters the jail sub-flow.
C28_GoToJailLanding ==
    [][\A p \in Players : JailedByLanding({"roll_dice", "driver_roll"}, p)]_vars

\* C28: the GUI controller path sets the jail flag on the 'Go to Jail' space.
C28_GuiGoToJailLanding ==
    [][\A p \in Players : JailedByLanding({"roll_dice"}, p)]_vars

----------------------------------------------------------------------------
(* The piles of a deck at the moment a drawn card's effect starts: the      *)
(* world draw(World, deck, c) is the one draw_and_execute hands to execute. *)

DeckNames == {"chance", "cc"}

\* C29: a non-keepable card enters its deck's discard pile only after its
\* effect has resolved: while the effect of a drawn card is executing
\* (including any nested landing resolution and nested draw it causes), that
\* card is in neither the draw pile nor the discard pile.
C29_DiscardAfterEffect ==
    \A deck \in DeckNames : \A c \in Drawable(World, deck) :
        LET w1 == draw(World, deck, c)
        IN  (w1.exc = "none" /\ ~CardOf(c).keepable)
            => /\ c \notin SeqToSet(Cards(w1, deck))
               /\ c \notin SeqToSet(Discard(w1, deck))

\* C29: when the effect of a drawn non-keepable card starts, the card has
\* left the draw pile and is already the last card of the discard pile.
C29_DiscardedAtDraw ==
    \A deck \in DeckNames : \A c \in Drawable(World, deck) :
        LET w1 == draw(World, deck, c)
        IN  (w1.exc = "none" /\ ~CardOf(c).keepable)
            => /\ c \notin SeqToSet(Cards(w1, deck))
               /\ Discard(w1, deck) # <<>>
               /\ Discard(w1, deck)[Len(Discard(w1, deck))] = c

----------------------------------------------------------------------------
(* The utility rent of the advance-to-nearest-utility card *)

\* C30: when the advance_to_nearest_utility effect lands the player on a
\* utility owned by another player, the player is charged exactly 10 times
\* the total of a fresh dice roll and the owner is credited the same amount,
\* independent of how many utilities the owner holds.
C30_UtilityCardRent ==
    [][\A p \in Players :
          LET target == NearestAhead({12, 28}, current_pos[p])
              o == owner[target]
              r == 10 * last'.arg.dice
              bonus == IF Wraps({12, 28}, current_pos[p]) THEN 200 ELSE 0
          IN  (/\ last'.op = "advance_to_nearest_utility"
               /\ last'.p = p
               /\ o \notin {Bank, p})
              => /\ balance'[o] = balance[o] + r
                 /\ balance[p] + bonus >= r => balance'[p] = balance[p] + bonus - r]_vars

\* C30 witness: the owner of one utility only was paid 10 * 7 by a player
\* who advanced from index 0 to index 12.
C30_Witness ==
    /\ last.op = "advance_to_nearest_utility"
    /\ last.pre_pos[0] = 0
    /\ last.arg.dice = 7
    /\ owner[12] = 1
    /\ owner[28] = Bank
    /\ balance[0] = last.pre_balance[0] - 70
    /\ balance[1] = last.pre_balance[1] + 70

\* C30: the owner of both utilities was paid the same 10 * 7.
C30_BothUtilitiesWitness ==
    /\ last.op = "advance_to_nearest_utility"
    /\ last.pre_pos[0] = 0
    /\ last.arg.dice = 7
    /\ owner[12] = 1
    /\ owner[28] = 1
    /\ balance[0] = last.pre_balance[0] - 70
    /\ balance[1] = last.pre_balance[1] + 70

----------------------------------------------------------------------------
(* The AI player's purchase on an advance-to-nearest card *)

NearestOps == {"advance_to_nearest_railroad", "advance_to_nearest_utility"}

NearestTarget(op, pos) ==
    IF op = "advance_to_nearest_railroad" THEN NearestAhead({5, 15, 25, 35}, pos)
    ELSE NearestAhead({12, 28}, pos)

\* the balance the AI player holds when the purchase is decided: a wrap has
\* been credited by then
AtDecision(op, p) ==
    balance[p] + (IF current_pos'[p] <= current_pos[p] THEN 200 ELSE 0)

\* C31: when an advance_to_nearest_railroad or advance_to_nearest_utility
\* effect lands the AI player on a bank-owned space, the AI buys the space
\* whenever it can afford it, that is whenever its balance is at least the
\* purchase price (balance equal to the price included).
C31_AiBuysWhenAffordable ==
    [][\A p \in Players :
          LET target == NearestTarget(last'.op, current_pos[p])
          IN  (/\ last'.op \in NearestOps
               /\ last'.p = p
               /\ name[p] = "AI"
               /\ owner[target] = Bank
               /\ AtDecision(last'.op, p) >= card_cost(target))
              => /\ owner'[target] = p
                 /\ balance'[p] = AtDecision(last'.op, p) - card_cost(target)]_vars

\* C31: the AI player buys when its balance is above the price, and leaves
\* the space with the bank when its balance is the price or less.
C31_AiBuysAbovePrice ==
    [][\A p \in Players :
          LET target == NearestTarget(last'.op, current_pos[p])
          IN  (/\ last'.op \in NearestOps
               /\ last'.p = p
               /\ name[p] = "AI"
               /\ owner[target] = Bank)
              => IF AtDecision(last'.op, p) > card_cost(target)
                 THEN /\ owner'[target] = p
                      /\ balance'[p] = AtDecision(last'.op, p) - card_cost(target)
                 ELSE /\ owner'[target] = Bank
                      /\ balance'[p] = AtDecision(last'.op, p)]_vars

----------------------------------------------------------------------------
(* The game-over state of the GUI controller *)

\* what the claims about the controller call the state of the game
GameState ==
    <<balance, current_pos, owner, cards_owned, chance_cards, chance_discard,
      cc_cards, cc_discard, current_player_index, turn_phase>>

\* C32: the game-over state is terminal: once game_over is set, every later
\* roll_dice, buy_property and skip_purchase call is rejected and no player
\* balance, position, ownership, deck content, current player index or turn
\* phase changes again.
C32_GameOverTerminal ==
    [][game_over => (game_over' /\ GameState' = GameState)]_vars

\* C32: the controller never sets game_over: _end_turn returns before its
\* game-over test whenever a player is bankrupt, and with its three players
\* fewer than two are active only when one is bankrupt.
C32_GameOverNeverSet == ~game_over

\* C32: the state _end_turn would hand to _end_game (phase waiting_for_roll)
\* rejects the three calls.
C32_RejectedAfterEndGame ==
    LET g == end_game([World EXCEPT !.turn_phase = "waiting_for_roll", !.game_started = TRUE])
    IN  /\ roll_dice(g, NoInput) = failure(g)
        /\ buy_property(g, NoInput) = failure(g)
        /\ skip_purchase(g, NoInput) = failure(g)

----------------------------------------------------------------------------
(* The two records of ownership: Card.owner and Player.cards_owned *)

\* C33: in every reachable state, ownership is recorded consistently on both
\* sides: a space's owner is player P if and only if that space is in P's
\* owned-property collection, and a bank-owned space is in no player's
\* collection; this holds after purchases, bankruptcies and player-to-player
\* trades.
C33_OwnershipConsistent ==
    \A s \in Spaces : \A p \in Players :
        owner[s] = p <=> s \in SeqToSet(cards_owned[p])

\* C33: the space a player owns is in that player's collection (the converse
\* fails for the collection a bankrupt player keeps).
C33_OwnerHoldsSpace ==
    \A s \in Spaces : \A p \in Players :
        owner[s] = p => s \in SeqToSet(cards_owned[p])

----------------------------------------------------------------------------
(* Conservation of money in a rent payment *)

TotalCash(b) == SumSeq([i \in 1..Cardinality(DOMAIN b) |-> b[i - 1]])

\* the step was a rent payment by p: charge_rent, or an advance-to-nearest
\* card that took p to a space another player owns
RentStep(p) ==
    /\ last'.p = p
    /\ \/ last'.op = "charge_rent"
       \/ /\ last'.op \in NearestOps
          /\ owner[NearestTarget(last'.op, current_pos[p])] \notin {Bank, p}

\* the pass-start bonus a card credits before the rent
BonusOf(p) ==
    IF last'.op \in NearestOps /\ current_pos'[p] <= current_pos[p] THEN 200 ELSE 0

\* C34: rent transfers conserve money: in charge_rent and in the card-driven
\* railroad and utility rent paths, the amount credited to the owner equals
\* the amount actually deducted from the paying player, so the sum of all
\* players' balances is unchanged by a rent payment, including when the payer
\* cannot cover the rent or goes bankrupt.
C34_RentConservesMoney ==
    [][\A p \in Players :
          RentStep(p) => TotalCash(balance') = TotalCash(balance) + BonusOf(p)]_vars

\* C34: a rent the payer can cover from cash is conserved.
C34_CoveredRentConserved ==
    [][\A p \in Players :
          (RentStep(p) /\ balance'[p] < balance[p] + BonusOf(p) /\ ~bankruptcy_status'[p])
          => TotalCash(balance') = TotalCash(balance) + BonusOf(p)]_vars

----------------------------------------------------------------------------
(* Who is asked to roll *)

\* C35: in the GUI controller, whenever the game is started, not over, and
\* the phase is waiting_for_roll, the current player is not bankrupt: a
\* player who went bankrupt during their own turn is never asked to roll
\* again.
C35_RollerNotBankrupt ==
    can_roll_dice(World) => ~bankruptcy_status[current_player_index]

----------------------------------------------------------------------------
(* The chain of draws of one landing *)

LandingDraws == {"draw_chance", "draw_cc"}

\* C36: with the standard Chance and Community Chest catalogs, every landing
\* resolution terminates: from any position and any deck order, the chain of
\* card effects started by one landing draws at most two cards (a Chance card
\* can lead to one Community Chest draw, and no Community Chest card leads to
\* a further draw), so the recursion always unwinds.
C36_LandingDrawsAtMostTwo ==
    last.op \in LandingDraws => Len(last.drawn) <= 2

\* C36 witness: a landing on a Chance space drew a card that moves the
\* player, and the resolution has ended with that one card drawn.
C36_Witness ==
    /\ last.op = "draw_chance"
    /\ CardOf(last.arg).effect \in {"move_to_position", "move_relative"}
    /\ Len(last.drawn) = 1

\* C36: the nested landing resolution of a move card never draws: the call
\* of check_pos it makes fails, so one landing draws one card.
C36_LandingDrawsOne ==
    last.op \in LandingDraws => Len(last.drawn) <= 1

----------------------------------------------------------------------------
(* SpecButtons: the three buttons of the GUI pressed in any state, also     *)
(* when the controller turns the call down. The initial states are those of *)
(* SpecSink.                                                                *)

\* button presses per behaviour of SpecButtons
MaxButtonPresses == 2

BStartGame ==
    /\ ~game_started
    /\ ops < MaxButtonPresses
    /\ Apply("start_game", NoPlayer, 0, start_game(World))

BRollDice ==
    /\ ops < MaxButtonPresses
    /\ \E inp \in RollInputs :
          Apply("roll_dice", current_player_index, inp.roll, roll_dice(World, inp))

BBuyProperty ==
    /\ ops < MaxButtonPresses
    /\ \E a \in AiInputs :
          Apply("buy_property", current_player_index, 0, buy_property(World, a))

BSkipPurchase ==
    /\ ops < MaxButtonPresses
    /\ \E a \in AiInputs :
          Apply("skip_purchase", current_player_index, 0, skip_purchase(World, a))

NextButtons ==
    \/ BStartGame
    \/ BRollDice
    \/ BBuyProperty
    \/ BSkipPurchase

SpecButtons == InitSink /\ [][NextButtons]_vars

\* the call made in this step is one the controller turns down
TurnedDown ==
    \/ last'.op = "roll_dice" /\ ~(game_started /\ ~game_over /\ turn_phase = "waiting_for_roll")
    \/ /\ last'.op = "buy_property"
       /\ \/ turn_phase # "action_required"
          \/ ~Purchasable(current_pos[current_player_index])
          \/ owner[current_pos[current_player_index]] # Bank
          \/ balance[current_player_index] < card_cost(current_pos[current_player_index])
    \/ last'.op = "skip_purchase" /\ turn_phase # "action_required"

\* C37: a rejected controller call changes nothing: roll_dice when the game
\* is not started, is over, or the phase is not waiting_for_roll;
\* buy_property when the phase is not action_required, the space is not
\* bank-owned or not purchasable, or the balance is below the price; and
\* skip_purchase when the phase is not action_required each return a failure
\* result and leave players, board, deck, current player index and turn
\* phase unchanged.
C37_RejectedCallChangesNothing ==
    [][TurnedDown
       => /\ ~last'.success
          /\ UNCHANGED <<name, balance, cards_owned, current_pos, in_jail, railroads_owned,
                         doubles_counter, bankruptcy_status, get_out_of_jail_cards,
                         owner, mortgaged_spaces, chance_cards, chance_discard, cc_cards,
                         cc_discard, current_player_index, game_started, game_over,
                         turn_phase, last_dice_roll, winner>>]_vars

\* C37 witness: a purchase offered to a player whose balance is below the
\* price has been turned down, and the offer still stands.
C37_Witness ==
    /\ last.op = "buy_property"
    /\ ~last.success
    /\ turn_phase = "action_required"
    /\ Purchasable(current_pos[current_player_index])
    /\ balance[current_player_index] < card_cost(current_pos[current_player_index])

\* C37: a roll turned down while a purchase is on offer, and a skip turned
\* down before the game has started.
C37_RollWitness ==
    /\ last.op = "roll_dice"
    /\ ~last.success
    /\ turn_phase = "action_required"

C37_SkipWitness ==
    /\ last.op = "skip_purchase"
    /\ ~last.success
    /\ ~game_started

----------------------------------------------------------------------------
(* The roll-for-doubles branch of the two jail sub-flows *)

\* the turn has ended with p at the jail index and the jail flag set
StaysJailed(w, p) ==
    /\ w.exc = "none"
    /\ w.in_jail[p]
    /\ w.current_pos[p] = JailPos

\* C38: the roll-for-doubles branch of the jail sub-flow never releases
\* anyone: a jailed player who holds no escape card and does not pay bail (or
\* has balance below 50 in the GUI controller) ends the turn still at index
\* 10 with the jail flag set, for every dice outcome, and so stays in jail
\* for as long as those conditions last.
C38_DoublesNeverRelease ==
    LET p == current_player_index
    IN  (can_roll_dice(World) /\ in_jail[p] /\ get_out_of_jail_cards[p] = <<>>)
        => \A d \in DiceTotals, use \in BOOLEAN :
              /\ StaysJailed(release_from_jail(World, p,
                     [NoInput EXCEPT !.dice = d, !.use_card = use, !.pay_bail = FALSE]), p)
              /\ \A bail \in BOOLEAN :
                    (~bail \/ balance[p] < 50)
                    => StaysJailed(roll_dice(World,
                           [NoInput EXCEPT !.roll = d, !.use_card = use, !.pay_bail = bail]), p)

\* C38 witness: a jailed player without an escape card and short of the bail
\* has pressed roll, the turn has ended, and the player is still in jail.
C38_Witness ==
    /\ last.op = "roll_dice"
    /\ last.p = 0
    /\ last.ended # <<>>
    /\ last.pre_pos[0] = JailPos
    /\ last.pre_balance[0] < 50
    /\ get_out_of_jail_cards[0] = <<>>
    /\ in_jail[0]
    /\ current_pos[0] = JailPos
    /\ balance[0] = last.pre_balance[0]

----------------------------------------------------------------------------
(* A debit the player can cover only by liquidation *)

\* C39: when reduce_balance(amount) is called with balance < amount but
\* balance plus liquidatable net worth >= amount, the player is not declared
\* bankrupt and the call leaves the player's balance, owned properties,
\* railroad count and bankruptcy flag exactly as they were (nothing is
\* deducted).
C39_ShortButSolvent ==
    [][\A p \in Players :
          (/\ last'.op = "reduce_balance"
           /\ last'.p = p
           /\ balance[p] < last'.arg
           /\ Liquidatable(p) >= last'.arg)
          => /\ balance'[p] = balance[p]
             /\ cards_owned'[p] = cards_owned[p]
             /\ railroads_owned'[p] = railroads_owned[p]
             /\ bankruptcy_status'[p] = bankruptcy_status[p]
             /\ \A s \in SeqToSet(cards_owned[p]) : owner'[s] = owner[s]]_vars

\* C39 witness: a debit of 400 met a player with 5 in cash and holdings worth
\* more than the rest, and took nothing.
C39_Witness ==
    /\ last.op = "reduce_balance"
    /\ last.p = 1
    /\ last.arg = 400
    /\ last.pre_balance[1] = 5
    /\ balance[1] = 5
    /\ cards_owned[1] = MortgageHoldings
    /\ ~bankruptcy_status[1]

====
